---- MODULE Spec2Model ----
(***************************************************************************)
(* Sync store and event iterator of the ponder indexer (SqliteSyncStore).  *)
(* Tables are the variables; every store method is an action (a method of  *)
(* several transactions is one action per transaction, since other calls   *)
(* may run between two awaits).                                            *)
(***************************************************************************)
EXTENDS Integers, Sequences, FiniteSets, Bags, TLC

VARIABLES
    blocks,                    \* table blocks: set of rows, key hash
    transactions,              \* table transactions: set of rows, key hash
    logs,                      \* table logs: set of rows, key id
    rpcRequestResults,         \* table rpcRequestResults: set of rows
    logFilters,                \* table logFilters: set of fragment rows, key id
    logFilterIntervals,        \* table logFilterIntervals: bag of rows (autoincrement id dropped)
    factories,                 \* table factories: set of fragment rows, key id
    factoryLogFilterIntervals, \* table factoryLogFilterIntervals: bag of rows
    glfi,                      \* the getLogFilterIntervals call in progress
    gle,                       \* the getLogEvents iteration in progress
    recorded,                  \* history: block numbers recorded per fragment id by the ingestion calls
    gfca,                      \* the getFactoryChildAddresses iteration in progress
    txn,                       \* the transaction in progress, statement by statement
    rpc,                       \* the getRpcRequestResult call in progress; history: the results written
    calc,                      \* an application of a function of the store: its input and result
    runner                     \* the Ponder runner: its fields and its calls in progress

vars == <<blocks, transactions, logs, rpcRequestResults, logFilters, logFilterIntervals,
          factories, factoryLogFilterIntervals, glfi, gle, recorded, gfca, txn, rpc, calc,
          runner>>

tables == <<blocks, transactions, logs, rpcRequestResults, logFilters, logFilterIntervals,
            factories, factoryLogFilterIntervals>>

----------------------------------------------------------------------------
(* Bounds. *)

\* Block numbers of coverage intervals range over 0..MaxBlock.
MaxBlock == 2
\* At most MaxIntervalRows rows are held in one interval table.
MaxIntervalRows == 2
\* Page sizes of getLogEvents range over 1..MaxPageSize.
MaxPageSize == 3
\* Lists given to the interval functions hold at most MaxListLen intervals.
MaxListLen == 3
\* Width of the fixed-width decimal text of a bigint column (79 in the program).
EncWidth == 2

NULL == "null"

Range(s) == {s[i] : i \in DOMAIN s}

Min(a, b) == IF a <= b THEN a ELSE b

Max(a, b) == IF a >= b THEN a ELSE b

----------------------------------------------------------------------------
(* Encoding: bigint columns are fixed-width decimal text, compared as text. *)

RECURSIVE Pow10(_)
Pow10(k) == IF k = 0 THEN 1 ELSE 10 * Pow10(k - 1)

\* encodeAsText: the decimal digits of n, left-padded with 0 to EncWidth.
encodeAsText(n) == [i \in 1..EncWidth |-> (n \div Pow10(EncWidth - i)) % 10]

RECURSIVE DecodeFrom(_, _)
DecodeFrom(s, i) == IF i > Len(s) THEN 0 ELSE s[i] * Pow10(Len(s) - i) + DecodeFrom(s, i + 1)

\* decodeToBigInt: the number a text holds.
decodeToBigInt(s) == DecodeFrom(s, 1)

\* SQL's text comparison s < t of two texts of equal length.
TextLess(s, t) ==
    \E i \in 1..Len(s) : s[i] < t[i] /\ \A j \in 1..(i - 1) : s[j] = t[j]

TextLeq(s, t) == s = t \/ TextLess(s, t)

----------------------------------------------------------------------------
(* Interval algebra (utils/interval): lists of closed intervals <<a, b>>.   *)

PointsOf(list) == UNION {list[i][1]..list[i][2] : i \in DOMAIN list}

\* The intervals of a set that start lowest, and the one intervalUnion starts from.
LowestStart(S) == CHOOSE x \in S : \A y \in S : x[1] < y[1] \/ (x[1] = y[1] /\ x[2] >= y[2])

\* The end of the run that starts with interval cur and absorbs every interval
\* of S that overlaps or touches it.
RECURSIVE RunEnd(_, _)
RunEnd(cur, S) ==
    LET touching == {y \in S : y[1] <= cur[2] + 1 /\ y[2] > cur[2]}
    IN  IF touching = {} THEN cur[2]
        ELSE RunEnd(<<cur[1], (CHOOSE y \in touching : \A z \in touching : y[2] >= z[2])[2]>>, S)

RECURSIVE UnionOfSet(_)
UnionOfSet(S) ==
    IF S = {} THEN <<>>
    ELSE LET first == LowestStart(S)
             end   == RunEnd(first, S)
         IN  <<(<<first[1], end>>)>> \o UnionOfSet({y \in S : y[1] > end + 1})

\* intervalUnion: sort by start, merge what overlaps or touches (b + 1 = a').
intervalUnion(list) == UnionOfSet(Range(list))

\* The intersection of two lists, each unioned first.
intervalIntersection(l1, l2) ==
    LET u1 == intervalUnion(l1)
        u2 == intervalUnion(l2)
        both == {<<Max(u1[i][1], u2[j][1]), Min(u1[i][2], u2[j][2])>> :
                    <<i, j>> \in (DOMAIN u1) \X (DOMAIN u2)}
    IN  UnionOfSet({x \in both : x[1] <= x[2]})

RECURSIVE IntersectFrom(_, _, _)
IntersectFrom(acc, lists, i) ==
    IF i > Len(lists) THEN acc
    ELSE IntersectFrom(intervalIntersection(acc, lists[i]), lists, i + 1)

\* A changed intersection: a single list is returned as it was given.
intervalIntersectionMany_SingleAsGiven(lists) ==
    IF Len(lists) = 0 THEN <<>>
    ELSE IF Len(lists) = 1 THEN lists[1]
    ELSE IntersectFrom(intervalUnion(lists[1]), lists, 2)

\* intervalIntersectionMany: the intersection of k lists; empty when one is empty.
intervalIntersectionMany(lists) ==
    IF Len(lists) = 0 THEN <<>>
    ELSE IntersectFrom(intervalUnion(lists[1]), lists, 2)

\* A list in canonical form: ascending, disjoint and non-touching.
IsCanonical(list) ==
    /\ \A i \in DOMAIN list : list[i][1] <= list[i][2]
    /\ \A i \in DOMAIN list : i < Len(list) => list[i][2] + 1 < list[i + 1][1]

----------------------------------------------------------------------------
(* Criteria and fragments (utils/fragments).                                *)
(* A slot of a criterion is null, one value, or an array of values.         *)

NullSlot == [k |-> "null", v |-> <<>>]

One(x) == [k |-> "one", v |-> <<x>>]

Many(xs) == [k |-> "many", v |-> xs]

SlotValues(slot) == IF slot.k = "null" THEN {NULL} ELSE Range(slot.v)

\* criteria.topics[idx] ?? null, idx in 0..3
TopicSlot(criteria, idx) ==
    IF idx + 1 <= Len(criteria.topics) THEN criteria.topics[idx + 1] ELSE NullSlot

Topic(row, idx) ==
    CASE idx = 0 -> row.topic0
      [] idx = 1 -> row.topic1
      [] idx = 2 -> row.topic2
      [] idx = 3 -> row.topic3

\* buildLogFilterFragments: the cartesian product over the slots, null kept
\* for an absent slot; the id is a canonical text of the tuple.
buildLogFilterFragments(criteria, chainId) ==
    {[id |-> <<chainId, a, t0, t1, t2, t3>>, chainId |-> chainId, address |-> a,
      topic0 |-> t0, topic1 |-> t1, topic2 |-> t2, topic3 |-> t3] :
        a \in SlotValues(criteria.address),
        t0 \in SlotValues(TopicSlot(criteria, 0)),
        t1 \in SlotValues(TopicSlot(criteria, 1)),
        t2 \in SlotValues(TopicSlot(criteria, 2)),
        t3 \in SlotValues(TopicSlot(criteria, 3))}

\* buildFactoryFragments: as above, with address, eventSelector and
\* childAddressLocation always bound.
buildFactoryFragments(criteria, chainId) ==
    {[id |-> <<chainId, criteria.address, criteria.eventSelector,
               criteria.childAddressLocation, t0, t1, t2, t3>>,
      chainId |-> chainId, address |-> criteria.address,
      eventSelector |-> criteria.eventSelector,
      childAddressLocation |-> criteria.childAddressLocation,
      topic0 |-> t0, topic1 |-> t1, topic2 |-> t2, topic3 |-> t3] :
        t0 \in SlotValues(TopicSlot(criteria, 0)),
        t1 \in SlotValues(TopicSlot(criteria, 1)),
        t2 \in SlotValues(TopicSlot(criteria, 2)),
        t3 \in SlotValues(TopicSlot(criteria, 3))}

\* A set as a list, in some order.
RECURSIVE SetToSeq(_)
SetToSeq(S) ==
    IF S = {} THEN <<>>
    ELSE LET x == CHOOSE y \in S : TRUE IN <<x>> \o SetToSeq(S \ {x})

----------------------------------------------------------------------------
(* Rows and the statements the methods share.                               *)

\* rpcToSqliteBlock, with the chainId of the call
BlockRow(rpcBlock, chainId) ==
    [hash |-> rpcBlock.hash, chainId |-> chainId,
     number |-> encodeAsText(rpcBlock.number),
     timestamp |-> encodeAsText(rpcBlock.timestamp)]

\* rpcToSqliteTransaction, with the chainId of the call
TransactionRow(rpcTransaction, chainId) ==
    [hash |-> rpcTransaction.hash, chainId |-> chainId,
     blockHash |-> rpcTransaction.blockHash,
     blockNumber |-> encodeAsText(rpcTransaction.blockNumber)]

\* rpcToSqliteLog, with the chainId of the call; the id is blockHash-logIndex
LogRow(rpcLog, chainId) ==
    [id |-> <<rpcLog.blockHash, rpcLog.logIndex>>, chainId |-> chainId,
     address |-> rpcLog.address, blockHash |-> rpcLog.blockHash,
     blockNumber |-> encodeAsText(rpcLog.blockNumber), logIndex |-> rpcLog.logIndex,
     topic0 |-> rpcLog.topic0, topic1 |-> rpcLog.topic1, topic2 |-> rpcLog.topic2,
     topic3 |-> rpcLog.topic3, data |-> rpcLog.data,
     transactionHash |-> rpcLog.transactionHash]

\* A changed insert: the block is not stored.
InsertBlock_Skipped(table, rpcBlock, chainId) == table

\* insert into blocks ... on conflict (hash) do nothing
InsertBlock(table, rpcBlock, chainId) ==
    IF \E r \in table : r.hash = rpcBlock.hash THEN table
    ELSE table \cup {BlockRow(rpcBlock, chainId)}

\* for each transaction of the list: insert ... on conflict (hash) do nothing
RECURSIVE InsertTransactions(_, _, _)
InsertTransactions(table, rpcTransactions, chainId) ==
    IF rpcTransactions = <<>> THEN table
    ELSE LET t == Head(rpcTransactions)
             next == IF \E r \in table : r.hash = t.hash THEN table
                     ELSE table \cup {TransactionRow(t, chainId)}
         IN  InsertTransactions(next, Tail(rpcTransactions), chainId)

\* for each log of the list: insert ... on conflict (id) do nothing
RECURSIVE InsertLogs(_, _, _)
InsertLogs(table, rpcLogs, chainId) ==
    IF rpcLogs = <<>> THEN table
    ELSE LET row == LogRow(Head(rpcLogs), chainId)
             next == IF \E r \in table : r.id = row.id THEN table ELSE table \cup {row}
         IN  InsertLogs(next, Tail(rpcLogs), chainId)

\* insert ... on conflict do update set: the row of that id is replaced
Upsert(table, rows) == {r \in table : \A n \in rows : n.id # r.id} \cup rows

\* The fragments of a list of log filters, one entry per filter and fragment
\* (a fragment two filters share is entered twice).
RECURSIVE LogFilterFragmentBag(_, _)
LogFilterFragmentBag(criteriaList, chainId) ==
    IF criteriaList = <<>> THEN EmptyBag
    ELSE SetToBag(buildLogFilterFragments(Head(criteriaList), chainId))
            (+) LogFilterFragmentBag(Tail(criteriaList), chainId)

RECURSIVE FactoryFragmentBag(_, _)
FactoryFragmentBag(criteriaList, chainId) ==
    IF criteriaList = <<>> THEN EmptyBag
    ELSE SetToBag(buildFactoryFragments(Head(criteriaList), chainId))
            (+) FactoryFragmentBag(Tail(criteriaList), chainId)

\* An interval row: the fragment's id and the bounds as text.
IntervalRow(fragmentId, startBlock, endBlock) ==
    [fk |-> fragmentId, startBlock |-> encodeAsText(startBlock),
     endBlock |-> encodeAsText(endBlock)]

\* A changed IntervalRows: the row holds the interval's first block only.
IntervalRows_StartOnly(fragmentBag, interval) ==
    [r \in {IntervalRow(f.id, interval[1], interval[1]) : f \in BagToSet(fragmentBag)} |->
        CopiesIn(CHOOSE f \in BagToSet(fragmentBag) : f.id = r.fk, fragmentBag)]

\* One interval row per entry of a fragment bag.
IntervalRows(fragmentBag, interval) ==
    LET ids == {f.id : f \in BagToSet(fragmentBag)}
    IN  [r \in {IntervalRow(id, interval[1], interval[2]) : id \in ids} |->
            CopiesIn(CHOOSE f \in BagToSet(fragmentBag) : f.id = r.fk, fragmentBag)]

\* The rows of one fragment, decoded, as a set of intervals.
IntervalsOf(table, fragmentId) ==
    {<<decodeToBigInt(r.startBlock), decodeToBigInt(r.endBlock)>> :
        r \in {x \in BagToSet(table) : x.fk = fragmentId}}

\* delete from <table> where fk = id
DeleteRowsOf(table, fragmentId) ==
    [r \in {x \in BagToSet(table) : x.fk # fragmentId} |-> table[r]]

----------------------------------------------------------------------------
(* Interval recording and the coverage queries.                             *)

\* A changed _insertLogFilterInterval: the new interval is merged into the
\* fragment's rows as it is inserted.
_insertLogFilterInterval_Merging(lf, lfi, chainId, logFilterList, interval) ==
    LET fragmentBag == LogFilterFragmentBag(logFilterList, chainId)
        Merged(id) ==
            LET u == UnionOfSet(IntervalsOf(lfi, id) \cup {<<interval[1], interval[2]>>})
            IN  {IntervalRow(id, u[i][1], u[i][2]) : i \in DOMAIN u}
        ids == {f.id : f \in BagToSet(fragmentBag)}
    IN  [logFilters |-> Upsert(lf, BagToSet(fragmentBag)),
         logFilterIntervals |->
            [r \in {x \in BagToSet(lfi) : x.fk \notin ids} |-> lfi[r]]
                (+) SetToBag(UNION {Merged(id) : id \in ids})]

\* _insertLogFilterInterval: per fragment of every filter of the list, upsert
\* the fragment row and insert one interval row. Nothing is merged here.
_insertLogFilterInterval(lf, lfi, chainId, logFilterList, interval) ==
    LET fragmentBag == LogFilterFragmentBag(logFilterList, chainId)
    IN  [logFilters |-> Upsert(lf, BagToSet(fragmentBag)),
         logFilterIntervals |-> lfi (+) IntervalRows(fragmentBag, interval)]

\* _insertFactoryLogFilterInterval: the same for factory fragments.
_insertFactoryLogFilterInterval(fa, fli, chainId, factoryList, interval) ==
    LET fragmentBag == FactoryFragmentBag(factoryList, chainId)
    IN  [factories |-> Upsert(fa, BagToSet(fragmentBag)),
         factoryLogFilterIntervals |-> fli (+) IntervalRows(fragmentBag, interval)]

\* What the ingestion calls have recorded: the block numbers of the interval,
\* for every fragment of every criterion of the list.
RecordedBy(fragmentBag, interval) ==
    {<<f.id, n>> : f \in BagToSet(fragmentBag), n \in interval[1]..interval[2]}

\* A changed merge transaction: the rows stay as they are.
MergeIntervalRows_NoUnion(table, fragmentId) == table

\* A changed merge: the rows are deleted and the merged rows never inserted.
MergeIntervalRows_DeleteOnly(table, fragmentId) == DeleteRowsOf(table, fragmentId)

\* The merge transaction of the coverage queries, for one fragment: upsert the
\* fragment row, delete its interval rows, insert their intervalUnion.
MergeIntervalRows(table, fragmentId) ==
    LET existingIntervalRows == SetToSeq(IntervalsOf(table, fragmentId))
        mergedIntervals == intervalUnion(existingIntervalRows)
        mergedIntervalRows ==
            {IntervalRow(fragmentId, mergedIntervals[i][1], mergedIntervals[i][2]) :
                i \in DOMAIN mergedIntervals}
    IN  DeleteRowsOf(table, fragmentId) (+) SetToBag(mergedIntervalRows)

\* A changed join: a slot that either side leaves null matches.
LogFilterJoin_EitherNull(stored, fragment) ==
    /\ (stored.address = NULL \/ fragment.address = NULL \/ fragment.address = stored.address)
    /\ \A idx \in 0..3 :
          \/ Topic(stored, idx) = NULL
          \/ Topic(fragment, idx) = NULL
          \/ Topic(fragment, idx) = Topic(stored, idx)

\* The join condition of getLogFilterIntervals' read: a stored fragment counts
\* for a requested one when each of its columns is null or equal.
LogFilterJoin(stored, fragment) ==
    /\ (stored.address = NULL \/ fragment.address = stored.address)
    /\ \A idx \in 0..3 :
          Topic(stored, idx) = NULL \/ Topic(fragment, idx) = Topic(stored, idx)

\* The join condition of getFactoryLogFilterIntervals' read.
FactoryJoin(stored, fragment) ==
    /\ fragment.address = stored.address
    /\ fragment.eventSelector = stored.eventSelector
    /\ fragment.childAddressLocation = stored.childAddressLocation
    /\ \A idx \in 0..3 :
          Topic(stored, idx) = NULL \/ Topic(fragment, idx) = Topic(stored, idx)

\* A changed join: the read does not filter by chain.
JoinedFragments_AnyChain(fragmentTable, kind, fragment, chainId) ==
    {st \in fragmentTable :
        IF kind = "logFilter" THEN LogFilterJoin(st, fragment)
        ELSE FactoryJoin(st, fragment)}

\* The stored fragments whose interval rows the read selects for a fragment.
JoinedFragments(fragmentTable, kind, fragment, chainId) ==
    {st \in fragmentTable :
        /\ st.chainId = chainId
        /\ IF kind = "logFilter" THEN LogFilterJoin(st, fragment)
           ELSE FactoryJoin(st, fragment)}

\* A changed read: the list of one fragment only, no intersection.
ReadIntervals_FirstFragment(fragmentTable, intervalTable, kind, fragments, chainId) ==
    IF fragments = {} THEN <<>>
    ELSE LET f == CHOOSE x \in fragments : TRUE
         IN  UnionOfSet(UNION {IntervalsOf(intervalTable, st.id) :
                st \in {x \in fragmentTable : x.chainId = chainId
                            /\ IF kind = "logFilter" THEN LogFilterJoin(x, f)
                               ELSE FactoryJoin(x, f)}})

\* A changed read: the union over the fragments, not the intersection.
ReadIntervals_Union(fragmentTable, intervalTable, kind, fragments, chainId) ==
    UnionOfSet(UNION {IntervalsOf(intervalTable, st.id) :
        st \in {x \in fragmentTable : x.chainId = chainId
                    /\ \E f \in fragments : IF kind = "logFilter" THEN LogFilterJoin(x, f)
                                             ELSE FactoryJoin(x, f)}})

\* The read of a coverage query: per requested fragment the intervals of every
\* joined stored fragment, then intervalIntersectionMany over the fragments.
ReadIntervals(fragmentTable, intervalTable, kind, fragments, chainId) ==
    LET frs == SetToSeq(fragments)
        ListOf(f) ==
            SetToSeq(UNION {IntervalsOf(intervalTable, st.id) :
                                st \in JoinedFragments(fragmentTable, kind, f, chainId)})
    IN  intervalIntersectionMany([i \in DOMAIN frs |-> ListOf(frs[i])])

\* The merge transactions of a coverage query, one fragment after the other.
RECURSIVE MergeAll(_, _)
MergeAll(table, fragmentIds) ==
    IF fragmentIds = {} THEN table
    ELSE LET id == CHOOSE x \in fragmentIds : TRUE
         IN  MergeAll(MergeIntervalRows(table, id), fragmentIds \ {id})

\* getLogFilterIntervals when no other call runs between its transactions:
\* the list it returns on the tables lf (logFilters) and lfi (logFilterIntervals).
getLogFilterIntervals(lf, lfi, chainId, logFilter) ==
    LET fragments == buildLogFilterFragments(logFilter, chainId)
    IN  ReadIntervals(Upsert(lf, fragments), MergeAll(lfi, {f.id : f \in fragments}),
                      "logFilter", fragments, chainId)

\* getFactoryLogFilterIntervals when no other call runs between its
\* transactions, on the tables fa (factories) and fli (factoryLogFilterIntervals).
getFactoryLogFilterIntervals(fa, fli, chainId, factory) ==
    LET fragments == buildFactoryFragments(factory, chainId)
    IN  ReadIntervals(Upsert(fa, fragments), MergeAll(fli, {f.id : f \in fragments}),
                      "factory", fragments, chainId)

NoCriteria == [address |-> NullSlot]

IdleCall == [pc |-> "idle", kind |-> "none", chainId |-> 0, criteria |-> NoCriteria,
             todo |-> {}, ret |-> <<>>]

FragmentsOf(kind, criteria, chainId) ==
    IF kind = "logFilter" THEN buildLogFilterFragments(criteria, chainId)
    ELSE buildFactoryFragments(criteria, chainId)

----------------------------------------------------------------------------
(* The store methods as actions.                                            *)

\* The statements of insertLogFilterInterval's transaction, on the tables
\* st.blocks, st.transactions, st.logs, st.logFilters, st.logFilterIntervals.
insertLogFilterIntervalTx(st, chainId, logFilter, rpcBlock, rpcTransactions, rpcLogs, interval) ==
    LET w == _insertLogFilterInterval(st.logFilters, st.logFilterIntervals, chainId,
                                      <<logFilter>>, interval)
    IN  [blocks |-> InsertBlock(st.blocks, rpcBlock, chainId),
         transactions |-> InsertTransactions(st.transactions, rpcTransactions, chainId),
         logs |-> InsertLogs(st.logs, rpcLogs, chainId),
         logFilters |-> w.logFilters,
         logFilterIntervals |-> w.logFilterIntervals]

\* The tables insertLogFilterInterval writes, as they are now.
Written ==
    [blocks |-> blocks, transactions |-> transactions, logs |-> logs,
     logFilters |-> logFilters, logFilterIntervals |-> logFilterIntervals]

\* insertLogFilterInterval: one transaction.
insertLogFilterInterval(chainId, logFilter, rpcBlock, rpcTransactions, rpcLogs, interval) ==
    LET w == insertLogFilterIntervalTx(Written, chainId, logFilter, rpcBlock,
                                       rpcTransactions, rpcLogs, interval)
    IN  /\ blocks' = w.blocks
        /\ transactions' = w.transactions
        /\ logs' = w.logs
        /\ logFilters' = w.logFilters
        /\ logFilterIntervals' = w.logFilterIntervals
        /\ recorded' = recorded \cup
                RecordedBy(LogFilterFragmentBag(<<logFilter>>, chainId), interval)
        /\ UNCHANGED <<rpcRequestResults, factories, factoryLogFilterIntervals, glfi, gle, gfca, txn, rpc, calc, runner>>

\* insertFactoryLogFilterInterval: one transaction.
insertFactoryLogFilterInterval(chainId, factory, rpcBlock, rpcTransactions, rpcLogs, interval) ==
    LET w == _insertFactoryLogFilterInterval(factories, factoryLogFilterIntervals, chainId,
                                             <<factory>>, interval)
    IN  /\ blocks' = InsertBlock(blocks, rpcBlock, chainId)
        /\ transactions' = InsertTransactions(transactions, rpcTransactions, chainId)
        /\ logs' = InsertLogs(logs, rpcLogs, chainId)
        /\ factories' = w.factories
        /\ factoryLogFilterIntervals' = w.factoryLogFilterIntervals
        /\ recorded' = recorded \cup
                RecordedBy(FactoryFragmentBag(<<factory>>, chainId), interval)
        /\ UNCHANGED <<rpcRequestResults, logFilters, logFilterIntervals, glfi, gle, gfca, txn, rpc, calc, runner>>

\* A change: factories are recorded as factories only.
FactoriesAsLogFilters_None(factoryList) == <<>>

\* The log filter a factory is also recorded as: {address, topics: [eventSelector]}.
RECURSIVE FactoriesAsLogFilters(_)
FactoriesAsLogFilters(factoryList) ==
    IF factoryList = <<>> THEN <<>>
    ELSE <<[address |-> One(Head(factoryList).address),
            topics |-> <<One(Head(factoryList).eventSelector)>>]>>
            \o FactoriesAsLogFilters(Tail(factoryList))

\* insertRealtimeInterval: one transaction.
insertRealtimeInterval(chainId, logFilterList, factoryList, interval) ==
    LET allFilters == logFilterList \o FactoriesAsLogFilters(factoryList)
        w == _insertLogFilterInterval(logFilters, logFilterIntervals, chainId,
                                      allFilters, interval)
        v == _insertFactoryLogFilterInterval(factories, factoryLogFilterIntervals, chainId,
                                             factoryList, interval)
    IN  /\ logFilters' = w.logFilters
        /\ logFilterIntervals' = w.logFilterIntervals
        /\ factories' = v.factories
        /\ factoryLogFilterIntervals' = v.factoryLogFilterIntervals
        /\ recorded' = recorded
                \cup RecordedBy(LogFilterFragmentBag(allFilters, chainId), interval)
                \cup RecordedBy(FactoryFragmentBag(factoryList, chainId), interval)
        /\ UNCHANGED <<blocks, transactions, logs, rpcRequestResults, glfi, gle, gfca, txn, rpc, calc, runner>>

\* getLogFilterIntervals / getFactoryLogFilterIntervals, up to the first await:
\* the fragments are built and one merge transaction per fragment is started.
getIntervalsCall(kind, chainId, criteria) ==
    /\ glfi.pc = "idle"
    /\ glfi' = [pc |-> "merge", kind |-> kind, chainId |-> chainId, criteria |-> criteria,
                todo |-> FragmentsOf(kind, criteria, chainId), ret |-> <<>>]
    /\ UNCHANGED <<tables, gle, recorded, gfca, txn, rpc, calc, runner>>

\* One merge transaction of the call in progress.
getIntervalsMerge(fragment) ==
    /\ glfi.pc = "merge"
    /\ fragment \in glfi.todo
    /\ IF glfi.kind = "logFilter"
       THEN /\ logFilters' = Upsert(logFilters, {fragment})
            /\ logFilterIntervals' = MergeIntervalRows(logFilterIntervals, fragment.id)
            /\ UNCHANGED <<factories, factoryLogFilterIntervals>>
       ELSE /\ factories' = Upsert(factories, {fragment})
            /\ factoryLogFilterIntervals' =
                    MergeIntervalRows(factoryLogFilterIntervals, fragment.id)
            /\ UNCHANGED <<logFilters, logFilterIntervals>>
    /\ glfi' = [glfi EXCEPT !.todo = @ \ {fragment}]
    /\ UNCHANGED <<blocks, transactions, logs, rpcRequestResults, gle, recorded, gfca, txn, rpc, calc, runner>>

\* The read after every merge transaction has ended, and the return value.
getIntervalsRead ==
    /\ glfi.pc = "merge"
    /\ glfi.todo = {}
    /\ glfi' = [glfi EXCEPT
            !.pc = "done",
            !.ret = IF glfi.kind = "logFilter"
                    THEN ReadIntervals(logFilters, logFilterIntervals, "logFilter",
                            FragmentsOf(glfi.kind, glfi.criteria, glfi.chainId), glfi.chainId)
                    ELSE ReadIntervals(factories, factoryLogFilterIntervals, "factory",
                            FragmentsOf(glfi.kind, glfi.criteria, glfi.chainId), glfi.chainId)]
    /\ UNCHANGED <<tables, gle, recorded, gfca, txn, rpc, calc, runner>>

\* The caller has taken the returned list.
getIntervalsReturn ==
    /\ glfi.pc = "done"
    /\ glfi' = IdleCall
    /\ UNCHANGED <<tables, gle, recorded, gfca, txn, rpc, calc, runner>>

\* insertFactoryChildAddressLogs: one transaction, logs only.
insertFactoryChildAddressLogs(chainId, rpcLogs) ==
    /\ logs' = InsertLogs(logs, rpcLogs, chainId)
    /\ UNCHANGED <<blocks, transactions, rpcRequestResults, logFilters, logFilterIntervals,
                   factories, factoryLogFilterIntervals, glfi, gle, recorded, gfca, txn, rpc, calc, runner>>

\* A changed insertRealtimeBlock: the block is also recorded as covered for
\* the filter of no criteria.
insertRealtimeBlock_Recording(chainId, rpcBlock, rpcTransactions, rpcLogs) ==
    insertLogFilterInterval(chainId, [address |-> NullSlot, topics |-> <<>>], rpcBlock,
                            rpcTransactions, rpcLogs, <<rpcBlock.number, rpcBlock.number>>)

\* insertRealtimeBlock: one transaction, no interval is recorded.
insertRealtimeBlock(chainId, rpcBlock, rpcTransactions, rpcLogs) ==
    /\ blocks' = InsertBlock(blocks, rpcBlock, chainId)
    /\ transactions' = InsertTransactions(transactions, rpcTransactions, chainId)
    /\ logs' = InsertLogs(logs, rpcLogs, chainId)
    /\ UNCHANGED <<rpcRequestResults, logFilters, logFilterIntervals, factories,
                   factoryLogFilterIntervals, glfi, gle, recorded, gfca, txn, rpc, calc, runner>>

\* No getRpcRequestResult call in progress, no result written.
IdleRequest == [pc |-> "idle", blockNumber |-> 0, chainId |-> 0, request |-> "",
                returned |-> <<>>, written |-> {}]

NoCalc == [fn |-> "", in |-> <<>>, out |-> <<>>, done |-> FALSE]

\* History: the result last written for each (chainId, blockNumber, request),
\* block numbers as numbers.
WrittenWith(written, blockNumber, chainId, request, result) ==
    {w \in written : ~(w.request = request /\ w.blockNumber = blockNumber
                          /\ w.chainId = chainId)}
        \cup {[request |-> request, blockNumber |-> blockNumber, chainId |-> chainId,
                result |-> result]}

\* A changed insert: on conflict the stored row is kept.
insertRpcRequestResult_KeepFirst(blockNumber, chainId, request, result) ==
    LET row == [request |-> request, blockNumber |-> encodeAsText(blockNumber),
                chainId |-> chainId, result |-> result]
        same(r) == r.request = row.request /\ r.blockNumber = row.blockNumber
                        /\ r.chainId = row.chainId
    IN  /\ rpcRequestResults' =
                IF \E r \in rpcRequestResults : same(r) THEN rpcRequestResults
                ELSE rpcRequestResults \cup {row}
        /\ rpc' = [rpc EXCEPT !.written = WrittenWith(@, blockNumber, chainId, request, result)]
        /\ UNCHANGED <<blocks, transactions, logs, logFilters, logFilterIntervals, factories,
                       factoryLogFilterIntervals, glfi, gle, recorded, gfca, txn, calc, runner>>

\* insertRpcRequestResult: insert, on conflict of (request, blockNumber, chainId)
\* the result is overwritten.
insertRpcRequestResult(blockNumber, chainId, request, result) ==
    LET row == [request |-> request, blockNumber |-> encodeAsText(blockNumber),
                chainId |-> chainId, result |-> result]
    IN  /\ rpcRequestResults' =
                {r \in rpcRequestResults :
                    ~(r.request = row.request /\ r.blockNumber = row.blockNumber
                        /\ r.chainId = row.chainId)} \cup {row}
        /\ rpc' = [rpc EXCEPT !.written = WrittenWith(@, blockNumber, chainId, request, result)]
        /\ UNCHANGED <<blocks, transactions, logs, logFilters, logFilterIntervals, factories,
                       factoryLogFilterIntervals, glfi, gle, recorded, gfca, txn, calc, runner>>

\* The select of getRpcRequestResult.
RpcRequestResultRows(table, blockNumber, chainId, request) ==
    {r \in table : /\ r.blockNumber = encodeAsText(blockNumber)
                   /\ r.chainId = chainId
                   /\ r.request = request}

\* What getRpcRequestResult may return on a table: <<>> for null, or the first
\* row of the select with its block number decoded.
RpcRequestResults(table, blockNumber, chainId, request) ==
    LET rows == RpcRequestResultRows(table, blockNumber, chainId, request)
    IN  IF rows = {} THEN {<<>>}
        ELSE {<<[r EXCEPT !.blockNumber = decodeToBigInt(r.blockNumber)]>> : r \in rows}

\* getRpcRequestResult: one select.
getRpcRequestResult(blockNumber, chainId, request) ==
    /\ rpc.pc = "idle"
    /\ \E returned \in RpcRequestResults(rpcRequestResults, blockNumber, chainId, request) :
          rpc' = [rpc EXCEPT !.pc = "done", !.blockNumber = blockNumber,
                             !.chainId = chainId, !.request = request,
                             !.returned = returned]
    /\ UNCHANGED <<tables, glfi, gle, recorded, gfca, txn, calc, runner>>

\* The caller has taken the result.
getRpcRequestResultReturn ==
    /\ rpc.pc = "done"
    /\ rpc' = [IdleRequest EXCEPT !.written = rpc.written]
    /\ UNCHANGED <<tables, glfi, gle, recorded, gfca, txn, calc, runner>>

\* (select chainId from <fragments> where id = <interval row>.fk limit 1)
ChainOfRow(fragmentTable, row) ==
    IF \E f \in fragmentTable : f.id = row.fk
    THEN (CHOOSE f \in fragmentTable : f.id = row.fk).chainId
    ELSE 0

RECURSIVE SumCopies(_, _)
SumCopies(table, rows) ==
    IF rows = {} THEN 0
    ELSE LET r == CHOOSE x \in rows : TRUE IN table[r] + SumCopies(table, rows \ {r})

\* A changed truncation: rows that start after fromBlock are deleted, rows
\* that end after it are left.
TruncateIntervals_DeleteOnly(table, fragmentTable, chainId, fromBlock) ==
    [r \in {x \in BagToSet(table) :
                ~(ChainOfRow(fragmentTable, x) = chainId /\ TextLess(fromBlock, x.startBlock))}
        |-> table[r]]

\* A changed truncation: no row is deleted, every row of the chain that ends
\* after fromBlock is clamped.
TruncateIntervals_ClampOnly(table, fragmentTable, chainId, fromBlock) ==
    LET Clamp(r) == IF ChainOfRow(fragmentTable, r) = chainId
                        /\ TextLess(fromBlock, r.endBlock)
                    THEN [r EXCEPT !.endBlock = fromBlock]
                    ELSE r
    IN  [n \in {Clamp(r) : r \in BagToSet(table)} |->
            SumCopies(table, {r \in BagToSet(table) : Clamp(r) = n})]

\* A changed truncation: the two statements are not scoped to the chain.
TruncateIntervals_AnyChain(table, fragmentTable, chainId, fromBlock) ==
    LET kept == {r \in BagToSet(table) : ~TextLess(fromBlock, r.startBlock)}
        Clamp(r) == IF TextLess(fromBlock, r.endBlock)
                    THEN [r EXCEPT !.endBlock = fromBlock]
                    ELSE r
    IN  [n \in {Clamp(r) : r \in kept} |-> SumCopies(table, {r \in kept : Clamp(r) = n})]

\* The two interval statements of deleteRealtimeData on one interval table:
\* delete the rows of the chain with startBlock > fromBlock, then set endBlock
\* to fromBlock on the rows of the chain with endBlock > fromBlock.
TruncateIntervals(table, fragmentTable, chainId, fromBlock) ==
    LET kept == {r \in BagToSet(table) :
                    ~(ChainOfRow(fragmentTable, r) = chainId
                        /\ TextLess(fromBlock, r.startBlock))}
        Clamp(r) == IF ChainOfRow(fragmentTable, r) = chainId
                        /\ TextLess(fromBlock, r.endBlock)
                    THEN [r EXCEPT !.endBlock = fromBlock]
                    ELSE r
    IN  [n \in {Clamp(r) : r \in kept} |-> SumCopies(table, {r \in kept : Clamp(r) = n})]

\* A changed delete: only the blocks table is cut.
DeleteAbove_BlocksOnly(table, chainId, fromBlock, column) ==
    IF column = "number"
    THEN {r \in table : ~(r.chainId = chainId /\ TextLess(fromBlock, r[column]))}
    ELSE table

\* delete from <table> where chainId = chainId and <number column> > fromBlock
DeleteAbove(table, chainId, fromBlock, column) ==
    {r \in table : ~(r.chainId = chainId /\ TextLess(fromBlock, r[column]))}

\* deleteRealtimeData: one transaction.
deleteRealtimeData(chainId, fromBlock_) ==
    LET fromBlock == encodeAsText(fromBlock_)
    IN  /\ blocks' = DeleteAbove(blocks, chainId, fromBlock, "number")
        /\ transactions' = DeleteAbove(transactions, chainId, fromBlock, "blockNumber")
        /\ logs' = DeleteAbove(logs, chainId, fromBlock, "blockNumber")
        /\ rpcRequestResults' = DeleteAbove(rpcRequestResults, chainId, fromBlock, "blockNumber")
        /\ logFilterIntervals' =
                TruncateIntervals(logFilterIntervals, logFilters, chainId, fromBlock)
        /\ factoryLogFilterIntervals' =
                TruncateIntervals(factoryLogFilterIntervals, factories, chainId, fromBlock)
        /\ recorded' = {p \in recorded : ~(p[1][1] = chainId /\ p[2] > fromBlock_)}
        /\ rpc' = [rpc EXCEPT !.written =
                        {w \in @ : ~(w.chainId = chainId /\ w.blockNumber > fromBlock_)}]
        /\ UNCHANGED <<logFilters, factories, glfi, gle, gfca, txn, calc, runner>>

----------------------------------------------------------------------------
(* getLogEvents: the joined rows, the source conditions, the counts and the  *)
(* pages of the cursor loop.                                                 *)

\* The address in the low 20 bytes of a 32-byte word:
\* '0x' || substring(word, 27, 40). Words are named by the address they end in.
Low20(word) ==
    CASE word = "wA" -> "A"
      [] word = "wB" -> "B"
      [] OTHER -> NULL

\* buildFactoryChildAddressSelectExpression, applied to a log of the factory.
ChildAddress(log, childAddressLocation) ==
    CASE childAddressLocation = "topic1" -> Low20(log.topic1)
      [] childAddressLocation = "topic2" -> Low20(log.topic2)
      [] childAddressLocation = "topic3" -> Low20(log.topic3)
      [] OTHER -> Low20(log.data)

\* select <childAddress> from logs where chainId, address, topic0 are the factory's
ChildAddresses(logTable, chainId, criteria) ==
    {ChildAddress(l, criteria.childAddressLocation) :
        l \in {x \in logTable : /\ x.chainId = chainId
                                /\ x.address = criteria.address
                                /\ x.topic0 = criteria.eventSelector}} \ {NULL}

\* An optional number that is not given.
Undefined == -1

\* if (n): undefined and 0 are false.
Truthy(n) == n # Undefined /\ n # 0

\* blocks.number >= fromBlock and <= toBlock; a bound that is 0 or absent adds
\* no comparison (if (source.fromBlock), if (source.toBlock)).
InBlockRange(source, block) ==
    /\ Truthy(source.fromBlock) => TextLeq(encodeAsText(source.fromBlock), block.number)
    /\ Truthy(source.toBlock) => TextLeq(block.number, encodeAsText(source.toBlock))

\* "If it's an array of length 1, collapse it."
Collapse(slot) ==
    IF slot.k = "many" /\ Len(slot.v) = 1 THEN One(slot.v[1]) ELSE slot

\* A changed comparison: an array is compared as it stands, never collapsed,
\* and only a scalar can equal a column.
SlotCmpr_ScalarOnly(slot, value) ==
    CASE slot.k = "null" -> TRUE
      [] slot.k = "one"  -> value = slot.v[1]
      [] slot.k = "many" -> FALSE

\* The comparison pushed for one address or topic position: none for null,
\* column = x for a scalar, or(column = a ...) for an array.
SlotCmpr(slot, value) ==
    LET c == Collapse(slot)
    IN  CASE c.k = "null" -> TRUE
          [] c.k = "one"  -> value = c.v[1]
          [] c.k = "many" -> \E i \in DOMAIN c.v : value = c.v[i]

\* buildLogFilterCmprs, but for the event source name.
LogFilterCmprs(source, log, block) ==
    /\ log.chainId = source.chainId
    /\ SlotCmpr(source.criteria.address, log.address)
    /\ \A idx \in 0..3 : SlotCmpr(TopicSlot(source.criteria, idx), Topic(log, idx))
    /\ InBlockRange(source, block)

\* buildFactoryCmprs, but for the event source name.
FactoryCmprs(source, log, block, logTable) ==
    /\ log.chainId = source.chainId
    /\ log.address \in ChildAddresses(logTable, source.chainId, source.criteria)
    /\ InBlockRange(source, block)

SourceCmprs(source, log, block, logTable) ==
    IF source.kind = "logFilter" THEN LogFilterCmprs(source, log, block)
    ELSE FactoryCmprs(source, log, block, logTable)

\* The includeEventSelectors clause of the full query.
IncludeCmpr(source, log) ==
    source.includeEventSelectors.k # "null" =>
        log.topic0 \in Range(source.includeEventSelectors.v)

\* The ordering key of a joined row.
KeyOf(row) == <<row.block.timestamp, row.log.chainId, row.block.number, row.log.logIndex>>

\* baseQuery: logs joined to their block, crossed with the event source names,
\* where the block timestamp is within the request's bounds.
BaseRows(logTable, blockTable, request) ==
    {row \in {[eventSourceName |-> src.name, log |-> l, block |-> b] :
                src \in request.sources, l \in logTable, b \in blockTable} :
        /\ row.block.hash = row.log.blockHash
        /\ TextLeq(encodeAsText(request.fromTimestamp), row.block.timestamp)
        /\ TextLeq(row.block.timestamp, encodeAsText(request.toTimestamp))}

SourceNamed(request, name) == {src \in request.sources : src.name = name}

\* includedLogsBaseQuery: the rows some source selects under its own name.
IncludedRows(logTable, blockTable, request) ==
    {row \in BaseRows(logTable, blockTable, request) :
        \E src \in SourceNamed(request, row.eventSourceName) :
            /\ SourceCmprs(src, row.log, row.block, logTable)
            /\ IncludeCmpr(src, row.log)}

\* A changed count query: with the includeEventSelectors clause.
CountedRows_Included(logTable, blockTable, request) ==
    IncludedRows(logTable, blockTable, request)

\* eventCountsQuery: the same without the includeEventSelectors clause,
\* counted by event source name and topic0.
CountedRows(logTable, blockTable, request) ==
    {row \in BaseRows(logTable, blockTable, request) :
        \E src \in SourceNamed(request, row.eventSourceName) :
            SourceCmprs(src, row.log, row.block, logTable)}

EventCounts(logTable, blockTable, request) ==
    LET rows == CountedRows(logTable, blockTable, request)
    IN  {[eventSourceName |-> g[1], selector |-> g[2],
          count |-> Cardinality({r \in rows : r.eventSourceName = g[1] /\ r.log.topic0 = g[2]})] :
            g \in {<<r.eventSourceName, r.log.topic0>> : r \in rows}}

\* order by blocks.timestamp, logs.chainId, blocks.number, logs.logIndex
KeyLess(k, c) ==
    \/ TextLess(k[1], c[1])
    \/ k[1] = c[1] /\ k[2] < c[2]
    \/ k[1] = c[1] /\ k[2] = c[2] /\ TextLess(k[3], c[3])
    \/ k[1] = c[1] /\ k[2] = c[2] /\ k[3] = c[3] /\ k[4] < c[4]

KeyLeq(k, c) == k = c \/ KeyLess(k, c)

NoCursor == <<>>

\* A changed cursor condition: rows of a later timestamp only.
AfterCursor_LaterTimestamp(row, cursor) == TextLess(cursor[1], KeyOf(row)[1])

\* A changed cursor clause: it also admits the key of the cursor.
AfterCursor_OrAt(row, cursor) == KeyLeq(cursor, KeyOf(row))

\* The where clause of the cursor, as nested in the loop.
AfterCursor(row, cursor) ==
    LET k == KeyOf(row)
    IN  /\ TextLeq(cursor[1], k[1])
        /\ \/ TextLess(cursor[1], k[1])
           \/ /\ k[2] >= cursor[2]
              /\ \/ k[2] > cursor[2]
                 \/ /\ TextLeq(cursor[3], k[3])
                    /\ \/ TextLess(cursor[3], k[3])
                       \/ k[4] > cursor[4]

\* A changed ordering: by blocks.timestamp alone.
Pages_ByTimestamp(rows, pageSize) ==
    LET m == Min(pageSize, Cardinality(rows))
    IN  {p \in [1..m -> rows] :
            /\ \A i, j \in 1..m : i < j => p[i] # p[j] /\ TextLeq(p[i].block.timestamp, p[j].block.timestamp)
            /\ \A r \in rows \ Range(p) : m > 0 => TextLeq(p[m].block.timestamp, r.block.timestamp)}

\* order by ... limit pageSize: the lists the query may return, rows of equal
\* key in any order.
Pages(rows, pageSize) ==
    LET m == Min(pageSize, Cardinality(rows))
    IN  {p \in [1..m -> rows] :
            /\ \A i, j \in 1..m : i < j => p[i] # p[j] /\ KeyLeq(KeyOf(p[i]), KeyOf(p[j]))
            /\ \A r \in rows \ Range(p) : m > 0 => KeyLeq(KeyOf(p[m]), KeyOf(r))}

\* The topics of a log that are not null, in order.
RECURSIVE TopicsFrom(_, _)
TopicsFrom(log, idx) ==
    IF idx > 3 THEN <<>>
    ELSE (IF Topic(log, idx) = NULL THEN <<>> ELSE <<Topic(log, idx)>>) \o TopicsFrom(log, idx + 1)

\* The event built from a row of the page query.
EventOf(row) ==
    [eventSourceName |-> row.eventSourceName,
     chainId |-> row.log.chainId,
     log |-> [id |-> row.log.id, address |-> row.log.address, blockHash |-> row.log.blockHash,
              blockNumber |-> decodeToBigInt(row.log.blockNumber),
              logIndex |-> row.log.logIndex, topics |-> TopicsFrom(row.log, 0),
              transactionHash |-> row.log.transactionHash],
     block |-> [hash |-> row.block.hash, number |-> decodeToBigInt(row.block.number),
                timestamp |-> decodeToBigInt(row.block.timestamp)]]

NoRequest == [fromTimestamp |-> 0, toTimestamp |-> 0, sources |-> {}]

\* stored is history: the ids of the logs in the store at each page's query.
IdleIteration == [pc |-> "idle", request |-> NoRequest, pageSize |-> 0, cursor |-> NoCursor,
                  pages |-> <<>>, counts |-> {}, stored |-> <<>>]

\* getLogEvents up to its loop: the counts are fetched once.
getLogEventsCall(request, pageSize) ==
    /\ gle.pc = "idle"
    /\ gle' = [pc |-> "paging", request |-> request, pageSize |-> pageSize,
               cursor |-> NoCursor, pages |-> <<>>,
               counts |-> EventCounts(logs, blocks, request), stored |-> <<>>]
    /\ UNCHANGED <<tables, glfi, recorded, gfca, txn, rpc, calc, runner>>

\* A changed page end: the upper bound of the request, whatever the page holds.
PageEndsAtTimestamp_Bound(requestedLogs, toTimestamp) == toTimestamp

\* pageEndsAtTimestamp: the block timestamp of the last row, toTimestamp for
\* an empty page.
PageEndsAtTimestamp(requestedLogs, toTimestamp) ==
    IF Len(requestedLogs) > 0
    THEN decodeToBigInt(requestedLogs[Len(requestedLogs)].block.timestamp)
    ELSE toTimestamp

\* A changed break: the loop ends on an empty page only.
LoopEnds_OnEmptyPage(n, pageSize) == n = 0

\* if (events.length < pageSize) break
LoopEnds(n, pageSize) == n < pageSize

\* Changed counts: fetched again for the page.
PageCounts_Refetched(eventCounts, logTable, blockTable, request) ==
    EventCounts(logTable, blockTable, request)

\* metadata.counts of a page: the counts fetched before the loop.
PageCounts(eventCounts, logTable, blockTable, request) == eventCounts

\* One round of the loop: the page query, the new cursor, the yield, the break.
getLogEventsPage ==
    /\ gle.pc = "paging"
    /\ \E requestedLogs \in
            Pages({r \in IncludedRows(logs, blocks, gle.request) :
                        gle.cursor = NoCursor \/ AfterCursor(r, gle.cursor)}, gle.pageSize) :
          LET n == Len(requestedLogs)
              events == [i \in 1..n |-> EventOf(requestedLogs[i])]
              pageEndsAtTimestamp == PageEndsAtTimestamp(requestedLogs, gle.request.toTimestamp)
          IN  gle' = [gle EXCEPT
                        !.cursor = IF n > 0 THEN KeyOf(requestedLogs[n]) ELSE @,
                        !.pages = Append(@, [events |-> events,
                                             metadata |-> [pageEndsAtTimestamp |-> pageEndsAtTimestamp,
                                                           counts |-> PageCounts(gle.counts, logs, blocks,
                                                                                 gle.request)]]),
                        !.stored = Append(@, {l.id : l \in logs}),
                        !.pc = IF LoopEnds(n, gle.pageSize) THEN "done" ELSE "paging"]
    /\ UNCHANGED <<tables, glfi, recorded, gfca, txn, rpc, calc, runner>>

\* The consumer has taken the last page.
getLogEventsReturn ==
    /\ gle.pc = "done"
    /\ gle' = IdleIteration
    /\ UNCHANGED <<tables, glfi, recorded, gfca, txn, rpc, calc, runner>>

----------------------------------------------------------------------------
(* getFactoryChildAddresses: pages of child addresses, the cursor is the     *)
(* blockNumber of the last row of a batch.                                   *)

NoFactory == [address |-> NULL, eventSelector |-> NULL, childAddressLocation |-> NULL,
              topics |-> <<>>]

IdleChildAddresses ==
    [pc |-> "idle", chainId |-> 0, upToBlockNumber |-> 0, factory |-> NoFactory,
     pageSize |-> 0, cursor |-> NoCursor, pages |-> <<>>, batches |-> <<>>,
     stored |-> <<>>]

\* A changed query: the bound on the block number is left to the cursor once
\* there is one.
ChildAddressRows_BoundFirstPage(logTable, chainId, upToBlockNumber, factory, cursor) ==
    {l \in logTable :
        /\ l.chainId = chainId
        /\ l.address = factory.address
        /\ l.topic0 = factory.eventSelector
        /\ IF cursor = NoCursor THEN TextLeq(l.blockNumber, encodeAsText(upToBlockNumber))
           ELSE TextLess(cursor, l.blockNumber)}

\* baseQuery with the cursor clause: the logs of the factory's event up to the
\* block number, and after the cursor's block number when there is a cursor.
ChildAddressRows(logTable, chainId, upToBlockNumber, factory, cursor) ==
    {l \in logTable :
        /\ l.chainId = chainId
        /\ l.address = factory.address
        /\ l.topic0 = factory.eventSelector
        /\ TextLeq(l.blockNumber, encodeAsText(upToBlockNumber))
        /\ cursor # NoCursor => TextLess(cursor, l.blockNumber)}

\* limit pageSize with no order by: any pageSize of the rows, in any order.
Batches(rows, pageSize) ==
    LET m == Min(pageSize, Cardinality(rows))
    IN  {p \in [1..m -> rows] : \A i, j \in 1..m : i < j => p[i] # p[j]}

\* getFactoryChildAddresses up to its loop.
getFactoryChildAddressesCall(chainId, upToBlockNumber, factory, pageSize) ==
    /\ gfca.pc = "idle"
    /\ gfca' = [pc |-> "paging", chainId |-> chainId, upToBlockNumber |-> upToBlockNumber,
                factory |-> factory, pageSize |-> pageSize, cursor |-> NoCursor,
                pages |-> <<>>, batches |-> <<>>, stored |-> <<>>]
    /\ UNCHANGED <<tables, glfi, gle, recorded, txn, rpc, calc, runner>>

\* One round of the loop: the batch, the new cursor, the yield of a batch that
\* is not empty, the break. batches keeps the logs behind the pages, stored
\* the ids of the logs in the table when each page was read.
getFactoryChildAddressesPage ==
    /\ gfca.pc = "paging"
    /\ \E batch \in Batches(ChildAddressRows(logs, gfca.chainId, gfca.upToBlockNumber,
                                             gfca.factory, gfca.cursor), gfca.pageSize) :
          LET n == Len(batch)
          IN  gfca' = [gfca EXCEPT
                        !.cursor = IF n > 0 THEN batch[n].blockNumber ELSE @,
                        !.pages = IF n > 0
                                  THEN Append(@, [i \in 1..n |->
                                        ChildAddress(batch[i], gfca.factory.childAddressLocation)])
                                  ELSE @,
                        !.batches = IF n > 0 THEN Append(@, batch) ELSE @,
                        !.stored = IF n > 0 THEN Append(@, {l.id : l \in logs}) ELSE @,
                        !.pc = IF n < gfca.pageSize THEN "done" ELSE "paging"]
    /\ UNCHANGED <<tables, glfi, gle, recorded, txn, rpc, calc, runner>>

\* The consumer has taken the last page.
getFactoryChildAddressesReturn ==
    /\ gfca.pc = "done"
    /\ gfca' = IdleChildAddresses
    /\ UNCHANGED <<tables, glfi, gle, recorded, txn, rpc, calc, runner>>

----------------------------------------------------------------------------
(* The transactional methods statement by statement. The statements of a     *)
(* transaction act on the connection's view of the tables (work); the tables *)
(* other operations read change at commit; a rollback drops the view.        *)

Db ==
    [blocks |-> blocks, transactions |-> transactions, logs |-> logs,
     rpcRequestResults |-> rpcRequestResults, logFilters |-> logFilters,
     logFilterIntervals |-> logFilterIntervals, factories |-> factories,
     factoryLogFilterIntervals |-> factoryLogFilterIntervals]

EmptyDb ==
    [blocks |-> {}, transactions |-> {}, logs |-> {}, rpcRequestResults |-> {},
     logFilters |-> {}, logFilterIntervals |-> EmptyBag, factories |-> {},
     factoryLogFilterIntervals |-> EmptyBag]

SetTables(db) ==
    /\ blocks' = db.blocks
    /\ transactions' = db.transactions
    /\ logs' = db.logs
    /\ rpcRequestResults' = db.rpcRequestResults
    /\ logFilters' = db.logFilters
    /\ logFilterIntervals' = db.logFilterIntervals
    /\ factories' = db.factories
    /\ factoryLogFilterIntervals' = db.factoryLogFilterIntervals

NoArgs == [chainId |-> 0, fromBlock |-> 0]

\* before is history: the tables when the transaction began.
IdleTransaction ==
    [pc |-> "idle", method |-> "none", args |-> NoArgs, before |-> EmptyDb, work |-> EmptyDb,
     queue |-> <<>>, tasks |-> <<>>, phases |-> <<>>]

\* delete from <interval table> where <chain of the fragment> = chainId and
\* startBlock > fromBlock
DeleteIntervalsAbove(table, fragmentTable, chainId, fromBlock) ==
    [r \in {x \in BagToSet(table) :
                ~(ChainOfRow(fragmentTable, x) = chainId /\ TextLess(fromBlock, x.startBlock))}
        |-> table[r]]

\* update <interval table> set endBlock = fromBlock where <chain of the
\* fragment> = chainId and endBlock > fromBlock
ClampIntervalsAbove(table, fragmentTable, chainId, fromBlock) ==
    LET Clamp(r) == IF ChainOfRow(fragmentTable, r) = chainId
                        /\ TextLess(fromBlock, r.endBlock)
                    THEN [r EXCEPT !.endBlock = fromBlock]
                    ELSE r
    IN  [n \in {Clamp(r) : r \in BagToSet(table)} |->
            SumCopies(table, {r \in BagToSet(table) : Clamp(r) = n})]

FragmentTableOf(intervalTable) ==
    IF intervalTable = "logFilterIntervals" THEN "logFilters" ELSE "factories"

\* One statement on a view of the tables.
Exec(db, s) ==
    CASE s.op = "insertBlock" ->
            [db EXCEPT !.blocks = InsertBlock(@, s.block, s.chainId)]
      [] s.op = "insertTransaction" ->
            [db EXCEPT !.transactions = InsertTransactions(@, <<s.transaction>>, s.chainId)]
      [] s.op = "insertLog" ->
            [db EXCEPT !.logs = InsertLogs(@, <<s.log>>, s.chainId)]
      [] s.op = "upsertFragment" ->
            [db EXCEPT ![s.table] = Upsert(@, {s.fragment})]
      [] s.op = "insertInterval" ->
            [db EXCEPT ![s.table] =
                @ (+) SetToBag({IntervalRow(s.fragmentId, s.interval[1], s.interval[2])})]
      [] s.op = "deleteAbove" ->
            [db EXCEPT ![s.table] = DeleteAbove(@, s.chainId, s.fromBlock, s.column)]
      [] s.op = "deleteIntervals" ->
            [db EXCEPT ![s.table] =
                DeleteIntervalsAbove(@, db[FragmentTableOf(s.table)], s.chainId, s.fromBlock)]
      [] s.op = "clampIntervals" ->
            [db EXCEPT ![s.table] =
                ClampIntervalsAbove(@, db[FragmentTableOf(s.table)], s.chainId, s.fromBlock)]

\* A changed write: the statement of a transaction is applied to the tables
\* at once.
TxWrite_Autocommit(db, work, s) == [db |-> Exec(db, s), work |-> Exec(work, s)]

\* A statement issued on tx inside db.transaction().execute: it changes the
\* view of the transaction and not the tables.
TxWrite(db, work, s) == [db |-> db, work |-> Exec(work, s)]

\* The insert of the block, then of each transaction, then of each log.
BlockStatements(chainId, rpcBlock, rpcTransactions, rpcLogs) ==
    <<[op |-> "insertBlock", chainId |-> chainId, block |-> rpcBlock]>>
        \o [i \in 1..Len(rpcTransactions) |->
                [op |-> "insertTransaction", chainId |-> chainId,
                 transaction |-> rpcTransactions[i]]]
        \o [i \in 1..Len(rpcLogs) |->
                [op |-> "insertLog", chainId |-> chainId, log |-> rpcLogs[i]]]

\* The callback of one fragment: upsert the fragment, then insert its interval.
FragmentTask(fragmentTable, intervalTable, fragment, interval) ==
    <<[op |-> "upsertFragment", table |-> fragmentTable, fragment |-> fragment],
      [op |-> "insertInterval", table |-> intervalTable, fragmentId |-> fragment.id,
       interval |-> interval]>>

\* _insertLogFilterInterval: the callbacks Promise.all is given, one per
\* fragment of every filter of the list.
RECURSIVE LogFilterTasks(_, _, _)
LogFilterTasks(logFilterList, chainId, interval) ==
    IF logFilterList = <<>> THEN <<>>
    ELSE LET fragments == SetToSeq(buildLogFilterFragments(Head(logFilterList), chainId))
         IN  [i \in 1..Len(fragments) |->
                    FragmentTask("logFilters", "logFilterIntervals", fragments[i], interval)]
                \o LogFilterTasks(Tail(logFilterList), chainId, interval)

\* _insertFactoryLogFilterInterval: the same for factory fragments.
RECURSIVE FactoryTasks(_, _, _)
FactoryTasks(factoryList, chainId, interval) ==
    IF factoryList = <<>> THEN <<>>
    ELSE LET fragments == SetToSeq(buildFactoryFragments(Head(factoryList), chainId))
         IN  [i \in 1..Len(fragments) |->
                    FragmentTask("factories", "factoryLogFilterIntervals", fragments[i], interval)]
                \o FactoryTasks(Tail(factoryList), chainId, interval)

\* The eight statements of deleteRealtimeData.
DeleteStatements(chainId, fromBlock) ==
    <<[op |-> "deleteAbove", table |-> "blocks", column |-> "number",
       chainId |-> chainId, fromBlock |-> fromBlock],
      [op |-> "deleteAbove", table |-> "transactions", column |-> "blockNumber",
       chainId |-> chainId, fromBlock |-> fromBlock],
      [op |-> "deleteAbove", table |-> "logs", column |-> "blockNumber",
       chainId |-> chainId, fromBlock |-> fromBlock],
      [op |-> "deleteAbove", table |-> "rpcRequestResults", column |-> "blockNumber",
       chainId |-> chainId, fromBlock |-> fromBlock],
      [op |-> "deleteIntervals", table |-> "logFilterIntervals",
       chainId |-> chainId, fromBlock |-> fromBlock],
      [op |-> "clampIntervals", table |-> "logFilterIntervals",
       chainId |-> chainId, fromBlock |-> fromBlock],
      [op |-> "deleteIntervals", table |-> "factoryLogFilterIntervals",
       chainId |-> chainId, fromBlock |-> fromBlock],
      [op |-> "clampIntervals", table |-> "factoryLogFilterIntervals",
       chainId |-> chainId, fromBlock |-> fromBlock]>>

\* db.transaction().execute: begin. queue holds the statements the callback
\* awaits one after the other, phases the lists of callbacks it then passes
\* to Promise.all, one list after the other.
txBegin(method, args, queue, phases) ==
    /\ txn.pc = "idle"
    /\ txn' = [pc |-> "open", method |-> method, args |-> args, before |-> Db, work |-> Db,
               queue |-> queue, tasks |-> <<>>, phases |-> phases]
    /\ UNCHANGED <<tables, glfi, gle, recorded, gfca, rpc, calc, runner>>

TasksSettled == \A i \in 1..Len(txn.tasks) : txn.tasks[i] = <<>>

\* An awaited statement of the callback succeeds.
txStatement ==
    /\ txn.pc = "open"
    /\ txn.queue # <<>>
    /\ LET w == TxWrite(Db, txn.work, Head(txn.queue))
       IN  /\ SetTables(w.db)
           /\ txn' = [txn EXCEPT !.work = w.work, !.queue = Tail(@)]
    /\ UNCHANGED <<glfi, gle, recorded, gfca, rpc, calc, runner>>

\* An awaited statement of the callback throws: the callback rejects and the
\* transaction is rolled back.
txStatementFails ==
    /\ txn.pc = "open"
    /\ txn.queue # <<>>
    /\ txn' = [txn EXCEPT !.pc = "failed", !.queue = <<>>, !.phases = <<>>]
    /\ UNCHANGED <<tables, glfi, gle, recorded, gfca, rpc, calc, runner>>

\* Promise.all(fragments.map(async ...)): every callback is started.
txPhase ==
    /\ txn.pc = "open"
    /\ txn.queue = <<>> /\ TasksSettled
    /\ txn.phases # <<>>
    /\ txn' = [txn EXCEPT !.tasks = Head(txn.phases), !.phases = Tail(@)]
    /\ UNCHANGED <<tables, glfi, gle, recorded, gfca, rpc, calc, runner>>

\* The next statement of one of the callbacks succeeds.
txTaskStatement ==
    /\ txn.pc = "open"
    /\ \E i \in 1..Len(txn.tasks) :
          /\ txn.tasks[i] # <<>>
          /\ LET w == TxWrite(Db, txn.work, Head(txn.tasks[i]))
             IN  /\ SetTables(w.db)
                 /\ txn' = [txn EXCEPT !.work = w.work, !.tasks[i] = Tail(@)]
    /\ UNCHANGED <<glfi, gle, recorded, gfca, rpc, calc, runner>>

\* The next statement of one of the callbacks throws: Promise.all rejects at
\* once, the transaction is rolled back, and the other callbacks, which
\* nothing has stopped, still hold their statements.
txTaskStatementFails ==
    /\ txn.pc = "open"
    /\ \E i \in 1..Len(txn.tasks) :
          /\ txn.tasks[i] # <<>>
          /\ txn' = [txn EXCEPT !.pc = "failed", !.tasks[i] = <<>>, !.phases = <<>>]
    /\ UNCHANGED <<tables, glfi, gle, recorded, gfca, rpc, calc, runner>>

\* A callback that is still running after the rollback issues its next
\* statement on tx: the connection is in no transaction, the statement is
\* applied to the tables.
txLateStatement ==
    /\ txn.pc = "failed"
    /\ \E i \in 1..Len(txn.tasks) :
          /\ txn.tasks[i] # <<>>
          /\ SetTables(Exec(Db, Head(txn.tasks[i])))
          /\ txn' = [txn EXCEPT !.tasks[i] = Tail(@)]
    /\ UNCHANGED <<glfi, gle, recorded, gfca, rpc, calc, runner>>

\* The callback has resolved: commit.
txCommit ==
    /\ txn.pc = "open"
    /\ txn.queue = <<>> /\ TasksSettled /\ txn.phases = <<>>
    /\ SetTables(txn.work)
    /\ txn' = [txn EXCEPT !.pc = "committed"]
    /\ UNCHANGED <<glfi, gle, recorded, gfca, rpc, calc, runner>>

\* The method has returned or thrown and no callback is left.
txReturn ==
    /\ txn.pc \in {"committed", "failed"}
    /\ TasksSettled
    /\ txn' = IdleTransaction
    /\ UNCHANGED <<tables, glfi, gle, recorded, gfca, rpc, calc, runner>>

----------------------------------------------------------------------------
(* The values the calls are made with.                                      *)

Chains == {1, 2}

\* Blocks of two chains; four of them share one timestamp, and hE is a sibling
\* of hB: the same chain, number and timestamp under another hash.
RpcBlocks ==
    {[hash |-> "hA", chain |-> 1, number |-> 1, timestamp |-> 1],
     [hash |-> "hB", chain |-> 1, number |-> 2, timestamp |-> 1],
     [hash |-> "hC", chain |-> 2, number |-> 1, timestamp |-> 1],
     [hash |-> "hD", chain |-> 1, number |-> 3, timestamp |-> 2],
     [hash |-> "hE", chain |-> 1, number |-> 2, timestamp |-> 1]}

RpcBlock(hash) == CHOOSE b \in RpcBlocks : b.hash = hash

\* One transaction per block.
RpcTransactionsOf(b) ==
    <<[hash |-> <<"tx", b.hash>>, blockHash |-> b.hash, blockNumber |-> b.number]>>

MkLog(hash, logIndex, address, topic0, topic1) ==
    [blockHash |-> hash, logIndex |-> logIndex, address |-> address, topic0 |-> topic0,
     topic1 |-> topic1, topic2 |-> NULL, topic3 |-> NULL, data |-> "0x",
     blockNumber |-> RpcBlock(hash).number,
     transactionHash |-> <<"tx", hash>>]

\* The logs of the blocks. Log 1 of block hA is a factory event announcing the
\* child address A in topic1.
RpcLogs ==
    {MkLog("hA", 0, "A", "X", NULL), MkLog("hA", 1, "F", "E", "wA"),
     MkLog("hB", 0, "A", "Y", NULL), MkLog("hC", 0, "A", "X", NULL),
     MkLog("hD", 0, "B", "X", NULL), MkLog("hE", 0, "A", "Y", NULL)}

RpcLogsOf(b) == {l \in RpcLogs : l.blockHash = b.hash}

Intervals == {<<a, b>> \in (0..MaxBlock) \X (0..MaxBlock) : a <= b}

fAny == [address |-> NullSlot, topics |-> <<>>]

fX == [address |-> NullSlot, topics |-> <<One("X")>>]

fY == [address |-> NullSlot, topics |-> <<One("Y")>>]

fXY == [address |-> NullSlot, topics |-> <<Many(<<"X", "Y">>)>>]

LogFilterCriteria == {fAny, fX, fY, fXY}

Fac == [address |-> "F", eventSelector |-> "E", childAddressLocation |-> "topic1",
        topics |-> <<>>]

FactoryCriteria == {Fac}

Rows == BagCardinality(logFilterIntervals) + BagCardinality(factoryLogFilterIntervals)

----------------------------------------------------------------------------
(* The Ponder runner: handleNewLogs, its triggers and reloadHandlers. A call *)
(* runs without interruption up to its next await; an await that is waited   *)
(* for is a step of its own.                                                 *)

MaxTimestamp == 2

MaxInFlight == 2

MaxQueues == 2

MaxPushes == 3

\* The constructor: no handlerQueue (0), logsProcessedToTimestamp = 0,
\* isHandlingLogs = false. pc is the position of setup/start/dev, backfill and
\* reload that of backfill() and reload(); inFlight holds the fromTimestamp of
\* every handleNewLogs call that awaits getLogs; pushed is history: the
\* queue, the fromTimestamp and the toTimestamp of every batch of logs pushed.
NewPonder ==
    [pc |-> "constructed", backfill |-> "none", reload |-> "none",
     handlerQueue |-> 0, killed |-> FALSE,
     logsProcessedToTimestamp |-> 0, isHandlingLogs |-> FALSE,
     inFlight |-> <<>>, pushed |-> <<>>]

\* A changed reloadHandlers: the old queue is killed, isHandlingLogs is left.
reloadHandlersKill_KeepFlag(r) ==
    IF r.handlerQueue # 0 THEN [r EXCEPT !.killed = TRUE] ELSE r

\* reloadHandlers up to 'await readHandlers': an existing queue is killed and
\* isHandlingLogs is set to false.
reloadHandlersKill(r) ==
    IF r.handlerQueue # 0
    THEN [r EXCEPT !.killed = TRUE, !.isHandlingLogs = FALSE]
    ELSE r

\* reloadHandlers after 'await readHandlers': a new queue.
reloadHandlersCreate(r) ==
    [r EXCEPT !.handlerQueue = @ + 1, !.killed = FALSE]

\* handleNewLogs up to 'await getLogs': nothing without a queue or while
\* isHandlingLogs; else isHandlingLogs = true and getLogs is called with
\* fromTimestamp = logsProcessedToTimestamp.
handleNewLogs(r) ==
    IF r.handlerQueue = 0 THEN r
    ELSE IF r.isHandlingLogs THEN r
    ELSE [r EXCEPT !.isHandlingLogs = TRUE,
                   !.inFlight = Append(@, r.logsProcessedToTimestamp)]

CanCall(r) == (r.handlerQueue # 0 /\ ~r.isHandlingLogs) => Len(r.inFlight) < MaxInFlight

Without(seq, i) == SubSeq(seq, 1, i - 1) \o SubSeq(seq, i + 1, Len(seq))

\* handleNewLogs after 'await getLogs', for the i-th call in flight: without
\* new logs isHandlingLogs = false; else the logs are pushed to the queue
\* there is now, logsProcessedToTimestamp = toTimestamp, isHandlingLogs = false.
handleNewLogsResume(i, hasNewLogs, toTimestamp) ==
    /\ i \in DOMAIN runner.inFlight
    /\ hasNewLogs => Len(runner.pushed) < MaxPushes
    /\ runner' =
            IF ~hasNewLogs
            THEN [runner EXCEPT !.isHandlingLogs = FALSE, !.inFlight = Without(@, i)]
            ELSE [runner EXCEPT
                    !.pushed = Append(@, [queue |-> runner.handlerQueue,
                                          fromTimestamp |-> runner.inFlight[i],
                                          toTimestamp |-> toTimestamp]),
                    !.logsProcessedToTimestamp = toTimestamp,
                    !.isHandlingLogs = FALSE,
                    !.inFlight = Without(@, i)]
    /\ UNCHANGED <<tables, glfi, gle, recorded, gfca, txn, rpc, calc>>

\* setup: reloadHandlers on the new runner, awaited.
setup ==
    /\ runner.pc = "constructed"
    /\ runner' = [reloadHandlersCreate(reloadHandlersKill(runner)) EXCEPT !.pc = "setup"]
    /\ UNCHANGED <<tables, glfi, gle, recorded, gfca, txn, rpc, calc>>

\* start: backfill is awaited, handleNewLogs is called after it.
Ponder_start ==
    /\ runner.pc = "setup"
    /\ runner' = [runner EXCEPT !.pc = "start", !.backfill = "running"]
    /\ UNCHANGED <<tables, glfi, gle, recorded, gfca, txn, rpc, calc>>

startHandleNewLogs ==
    /\ runner.pc = "start"
    /\ runner.backfill = "done"
    /\ CanCall(runner)
    /\ runner' = [handleNewLogs(runner) EXCEPT !.pc = "started"]
    /\ UNCHANGED <<tables, glfi, gle, recorded, gfca, txn, rpc, calc>>

\* dev: the files are watched, backfill is begun and not awaited, and
\* handleNewLogs is called at once.
dev ==
    /\ runner.pc = "setup"
    /\ CanCall(runner)
    /\ runner' = [handleNewLogs([runner EXCEPT !.backfill = "running"]) EXCEPT !.pc = "dev"]
    /\ UNCHANGED <<tables, glfi, gle, recorded, gfca, txn, rpc, calc>>

\* backfill, after the queues have drained: handleNewLogs.
backfill ==
    /\ runner.backfill = "running"
    /\ CanCall(runner)
    /\ runner' = [handleNewLogs(runner) EXCEPT !.backfill = "done"]
    /\ UNCHANGED <<tables, glfi, gle, recorded, gfca, txn, rpc, calc>>

\* The handlers of the events newBackfillLogs and newFrontfillLogs, which the
\* queues started by backfill emit.
handleNewBackfillLogs ==
    /\ runner.backfill = "running"
    /\ CanCall(runner)
    /\ runner' = handleNewLogs(runner)
    /\ UNCHANGED <<tables, glfi, gle, recorded, gfca, txn, rpc, calc>>

handleNewFrontfillLogs ==
    /\ runner.backfill # "none"
    /\ CanCall(runner)
    /\ runner' = handleNewLogs(runner)
    /\ UNCHANGED <<tables, glfi, gle, recorded, gfca, txn, rpc, calc>>

\* reload, on a change of a watched file: reloadSchema and reloadHandlers
\* begin, ...
reload ==
    /\ runner.pc = "dev"
    /\ runner.reload = "none"
    /\ runner.handlerQueue < MaxQueues
    /\ runner' = [reloadHandlersKill(runner) EXCEPT !.reload = "readHandlers"]
    /\ UNCHANGED <<tables, glfi, gle, recorded, gfca, txn, rpc, calc>>

\* ... readHandlers returns and the new queue is made, ...
reloadHandlers ==
    /\ runner.reload = "readHandlers"
    /\ runner' = [reloadHandlersCreate(runner) EXCEPT !.reload = "reloaded"]
    /\ UNCHANGED <<tables, glfi, gle, recorded, gfca, txn, rpc, calc>>

\* ... and when both have ended logsProcessedToTimestamp = 0 and
\* handleNewLogs is called.
reloadHandleNewLogs ==
    /\ runner.reload = "reloaded"
    /\ CanCall(runner)
    /\ runner' = [handleNewLogs([runner EXCEPT !.logsProcessedToTimestamp = 0])
                    EXCEPT !.reload = "none"]
    /\ UNCHANGED <<tables, glfi, gle, recorded, gfca, txn, rpc, calc>>

\* getLogs returns to a call in flight: no new logs, or the logs from its
\* fromTimestamp up to a later toTimestamp.
getLogsReturns ==
    \E i \in DOMAIN runner.inFlight, hasNewLogs \in BOOLEAN, toTimestamp \in 1..MaxTimestamp :
        /\ hasNewLogs => toTimestamp > runner.inFlight[i]
        /\ ~hasNewLogs => toTimestamp = 1
        /\ handleNewLogsResume(i, hasNewLogs, toTimestamp)

NextRunner ==
    \/ setup
    \/ Ponder_start
    \/ startHandleNewLogs
    \/ dev
    \/ backfill
    \/ handleNewBackfillLogs
    \/ handleNewFrontfillLogs
    \/ reload
    \/ reloadHandlers
    \/ reloadHandleNewLogs
    \/ getLogsReturns

----------------------------------------------------------------------------
(* SpecCoverage: interval recording, the coverage queries and truncation.   *)

InitStore ==
    /\ blocks = {}
    /\ transactions = {}
    /\ logs = {}
    /\ rpcRequestResults = {}
    /\ logFilters = {}
    /\ logFilterIntervals = EmptyBag
    /\ factories = {}
    /\ factoryLogFilterIntervals = EmptyBag
    /\ glfi = IdleCall
    /\ recorded = {}

Init ==
    /\ InitStore
    /\ gle = IdleIteration
    /\ gfca = IdleChildAddresses
    /\ txn = IdleTransaction
    /\ rpc = IdleRequest
    /\ runner = NewPonder
    /\ calc = NoCalc

CovInsertLogFilterInterval ==
    \E f \in LogFilterCriteria, iv \in Intervals :
        /\ Rows + Cardinality(buildLogFilterFragments(f, 1)) <= MaxIntervalRows
        /\ glfi.pc # "done"
        /\ insertLogFilterInterval(1, f, RpcBlock("hA"), RpcTransactionsOf(RpcBlock("hA")),
                                   SetToSeq(RpcLogsOf(RpcBlock("hA"))), iv)

CovInsertRealtimeInterval ==
    \E lfs \in {<<>>, <<fX>>}, fas \in {<<>>, <<Fac>>}, iv \in Intervals :
        /\ Len(lfs) + Len(fas) > 0
        /\ Rows + Len(lfs) + 2 * Len(fas) <= MaxIntervalRows
        /\ glfi.pc # "done"
        /\ insertRealtimeInterval(2, lfs, fas, iv)

CovDeleteRealtimeData ==
    \E c \in Chains, p \in 0..MaxBlock :
        /\ glfi.pc # "done"
        /\ deleteRealtimeData(c, p)

CovGetLogFilterIntervals ==
    \/ \E f \in LogFilterCriteria : getIntervalsCall("logFilter", 1, f)
    \/ getIntervalsCall("logFilter", 2, fX)

CovGetFactoryLogFilterIntervals == getIntervalsCall("factory", 2, Fac)

CovMerge == \E fragment \in glfi.todo : getIntervalsMerge(fragment)

NextCoverage ==
    \/ CovInsertLogFilterInterval
    \/ CovInsertRealtimeInterval
    \/ CovDeleteRealtimeData
    \/ CovGetLogFilterIntervals
    \/ CovGetFactoryLogFilterIntervals
    \/ CovMerge
    \/ getIntervalsRead
    \/ getIntervalsReturn

SpecCoverage == Init /\ [][NextCoverage]_vars

----------------------------------------------------------------------------
(* Event replay: blocks and factory logs are stored, then getLogEvents is   *)
(* iterated to its end over the store as it stands.                          *)

NoSelectors == NullSlot

\* Source a wants topic X on chain 1; b wants anything on chain 1 from block 2
\* on; c wants anything on chain 2; f wants the children of factory F.
SourceA ==
    [name |-> "a", kind |-> "logFilter", chainId |-> 1, criteria |-> fX,
     fromBlock |-> 0, toBlock |-> 0, includeEventSelectors |-> NoSelectors]

SourceB ==
    [name |-> "b", kind |-> "logFilter", chainId |-> 1, criteria |-> fAny,
     fromBlock |-> 2, toBlock |-> 0, includeEventSelectors |-> NoSelectors]

SourceC ==
    [name |-> "c", kind |-> "logFilter", chainId |-> 2, criteria |-> fAny,
     fromBlock |-> 0, toBlock |-> 0, includeEventSelectors |-> NoSelectors]

SourceF ==
    [name |-> "f", kind |-> "factory", chainId |-> 1, criteria |-> Fac,
     fromBlock |-> 0, toBlock |-> 0, includeEventSelectors |-> NoSelectors]

Sources == {SourceA, SourceB, SourceC, SourceF}

Requests ==
    {[fromTimestamp |-> t[1], toTimestamp |-> t[2], sources |-> ss] :
        t \in {<<1, 2>>, <<1, 1>>}, ss \in (SUBSET Sources) \ {{}}}

EvInsertRealtimeBlock ==
    /\ gle.pc = "idle"
    /\ \E b \in RpcBlocks :
          insertRealtimeBlock(b.chain, b, RpcTransactionsOf(b), SetToSeq(RpcLogsOf(b)))

EvInsertFactoryChildAddressLogs ==
    /\ gle.pc = "idle"
    /\ insertFactoryChildAddressLogs(1, SetToSeq({l \in RpcLogs : l.address = Fac.address}))

EvGetLogEvents ==
    \E request \in Requests, pageSize \in 1..MaxPageSize : getLogEventsCall(request, pageSize)

Next ==
    \/ EvInsertRealtimeBlock
    \/ EvInsertFactoryChildAddressLogs
    \/ EvGetLogEvents
    \/ getLogEventsPage
    \/ getLogEventsReturn

Spec == Init /\ [][Next]_vars

\* Iterations to their end: blocks are stored between the calls, and the
\* consumer keeps taking pages, as a for await loop asks for the next page as
\* soon as it has handled the last one.
IterationRequests ==
    {[fromTimestamp |-> 1, toTimestamp |-> 2, sources |-> ss] :
        ss \in {{SourceA}, {SourceB}, {SourceA, SourceB}}}

ItGetLogEvents ==
    \E request \in IterationRequests, pageSize \in 1..MaxPageSize :
        getLogEventsCall(request, pageSize)

NextIteration ==
    \/ EvInsertRealtimeBlock
    \/ ItGetLogEvents
    \/ getLogEventsPage
    \/ getLogEventsReturn

SpecIteration == Init /\ [][NextIteration]_vars /\ WF_vars(getLogEventsPage)

----------------------------------------------------------------------------
(* The interval scenarios of the specification with their own numbers:      *)
(* [0, 5] then [6, 10]; [0, 10] for one topic and [5, 15] for the other;    *)
(* [1, 10] truncated at 6.                                                   *)

ScenarioMaxRows == 3

ScenarioIntervals == {<<0, 5>>, <<6, 10>>, <<0, 10>>, <<5, 15>>, <<1, 10>>}

ScenarioCriteria == {fX, fY, fXY}

ScnInsertLogFilterInterval ==
    \E f \in ScenarioCriteria, iv \in ScenarioIntervals :
        /\ Rows + Cardinality(buildLogFilterFragments(f, 1)) <= ScenarioMaxRows
        /\ glfi.pc # "done"
        /\ insertLogFilterInterval(1, f, RpcBlock("hA"), RpcTransactionsOf(RpcBlock("hA")),
                                   SetToSeq(RpcLogsOf(RpcBlock("hA"))), iv)

ScnGetLogFilterIntervals ==
    \E f \in ScenarioCriteria : getIntervalsCall("logFilter", 1, f)

ScnDeleteRealtimeData ==
    /\ glfi.pc # "done"
    /\ deleteRealtimeData(1, 6)

NextScenarios ==
    \/ ScnInsertLogFilterInterval
    \/ ScnGetLogFilterIntervals
    \/ CovMerge
    \/ getIntervalsRead
    \/ getIntervalsReturn
    \/ ScnDeleteRealtimeData

SpecScenarios == Init /\ [][NextScenarios]_vars

----------------------------------------------------------------------------
(* Realtime ingestion and reorganisation: blocks with their transactions    *)
(* and logs, cached request results, factory logs, a realtime interval and  *)
(* its coverage query, and deleteRealtimeData at any pivot.                 *)

ReorgMaxRows == 1

RgInsertRealtimeBlock ==
    \E b \in RpcBlocks :
        insertRealtimeBlock(b.chain, b, RpcTransactionsOf(b), SetToSeq(RpcLogsOf(b)))

RgInsertRpcRequestResult ==
    \E c \in Chains, n \in 1..MaxBlock : insertRpcRequestResult(n, c, "eth_call", "0x")

RgInsertFactoryChildAddressLogs ==
    insertFactoryChildAddressLogs(1, SetToSeq({l \in RpcLogs : l.address = Fac.address}))

RgInsertRealtimeInterval ==
    \E iv \in Intervals :
        /\ Rows < ReorgMaxRows
        /\ insertRealtimeInterval(1, <<fAny>>, <<>>, iv)

RgInsertLogFilterInterval ==
    \E b \in {r \in RpcBlocks : r.chain = 1}, iv \in Intervals :
        /\ Rows < ReorgMaxRows
        /\ insertLogFilterInterval(1, fAny, b, RpcTransactionsOf(b), SetToSeq(RpcLogsOf(b)), iv)

RgGetLogFilterIntervals == getIntervalsCall("logFilter", 1, fAny)

RgDeleteRealtimeData ==
    \E c \in Chains, p \in 0..MaxBlock : deleteRealtimeData(c, p)

NextReorg ==
    \/ RgInsertRealtimeBlock
    \/ RgInsertRpcRequestResult
    \/ RgInsertFactoryChildAddressLogs
    \/ RgInsertRealtimeInterval
    \/ RgInsertLogFilterInterval
    \/ RgGetLogFilterIntervals
    \/ CovMerge
    \/ getIntervalsRead
    \/ getIntervalsReturn
    \/ RgDeleteRealtimeData

SpecReorg == Init /\ [][NextReorg]_vars

----------------------------------------------------------------------------
(* Writers between the pages of getLogEvents: blocks are stored and realtime *)
(* data is deleted while an iteration is under way.                          *)

ConcurrentRequests ==
    {[fromTimestamp |-> 1, toTimestamp |-> 2, sources |-> ss] :
        ss \in {{SourceB}, {SourceA, SourceB}}}

CcInsertRealtimeBlock ==
    \E b \in {r \in RpcBlocks : r.hash \in {"hA", "hB", "hD"}} :
        insertRealtimeBlock(b.chain, b, RpcTransactionsOf(b), SetToSeq(RpcLogsOf(b)))

CcDeleteRealtimeData == \E p \in 1..MaxBlock : deleteRealtimeData(1, p)

CcGetLogEvents ==
    \E request \in ConcurrentRequests, pageSize \in 1..(MaxPageSize - 1) :
        getLogEventsCall(request, pageSize)

NextConcurrent ==
    \/ CcInsertRealtimeBlock
    \/ CcDeleteRealtimeData
    \/ CcGetLogEvents
    \/ getLogEventsPage
    \/ getLogEventsReturn

SpecConcurrent == Init /\ [][NextConcurrent]_vars

----------------------------------------------------------------------------
(* Calls of getLogEvents whose sources include event selectors, on a store   *)
(* whose chain 1 can hold three logs of topic X and two of topic Y.          *)

CountRpcLogs == RpcLogs \cup {MkLog("hD", 1, "B", "X", NULL)}

fAB == [address |-> Many(<<"A", "B">>), topics |-> <<>>]

\* Source s wants the X events of addresses A and B on chain 1; g wants the Y
\* events of the children of factory F.
SourceS ==
    [name |-> "s", kind |-> "logFilter", chainId |-> 1, criteria |-> fAB,
     fromBlock |-> 0, toBlock |-> 0, includeEventSelectors |-> Many(<<"X">>)]

SourceG ==
    [name |-> "g", kind |-> "factory", chainId |-> 1, criteria |-> Fac,
     fromBlock |-> 0, toBlock |-> 0, includeEventSelectors |-> Many(<<"Y">>)]

CountRequests ==
    {[fromTimestamp |-> t[1], toTimestamp |-> t[2], sources |-> ss] :
        t \in {<<1, 2>>, <<1, 1>>, <<2, 2>>},
        ss \in {{SourceS}, {SourceG}, {SourceS, SourceG}, {SourceS, SourceB}}}

CtInsertRealtimeBlock ==
    /\ gle.pc = "idle"
    /\ \E b \in RpcBlocks :
          insertRealtimeBlock(b.chain, b, RpcTransactionsOf(b),
                              SetToSeq({l \in CountRpcLogs : l.blockHash = b.hash}))

CtGetLogEvents ==
    \E request \in CountRequests : getLogEventsCall(request, MaxPageSize)

NextCounts ==
    \/ CtInsertRealtimeBlock
    \/ CtGetLogEvents
    \/ getLogEventsPage
    \/ getLogEventsReturn

SpecCounts == Init /\ [][NextCounts]_vars

----------------------------------------------------------------------------
(* Factory logs are stored in any order, then getFactoryChildAddresses is    *)
(* iterated to its end.                                                      *)

\* Logs of factory F: two in block hA, one in hB, one in hD.
FactoryRpcLogs ==
    {MkLog("hA", 1, "F", "E", "wA"), MkLog("hA", 2, "F", "E", "wB"),
     MkLog("hB", 1, "F", "E", "wB"), MkLog("hD", 1, "F", "E", "wA")}

ChInsertFactoryChildAddressLogs ==
    /\ gfca.pc = "idle"
    /\ \E l \in FactoryRpcLogs : insertFactoryChildAddressLogs(1, <<l>>)

ChGetFactoryChildAddresses ==
    \E upToBlockNumber \in 1..(MaxBlock + 1), pageSize \in 1..MaxPageSize :
        getFactoryChildAddressesCall(1, upToBlockNumber, Fac, pageSize)

NextChildren ==
    \/ ChInsertFactoryChildAddressLogs
    \/ ChGetFactoryChildAddresses
    \/ getFactoryChildAddressesPage
    \/ getFactoryChildAddressesReturn

SpecChildren == Init /\ [][NextChildren]_vars

\* The same with logs inserted at any time, between the pages of a call too.
LtInsertFactoryChildAddressLogs ==
    \E l \in FactoryRpcLogs : insertFactoryChildAddressLogs(1, <<l>>)

LtGetFactoryChildAddresses ==
    \E upToBlockNumber \in 1..MaxBlock, pageSize \in 1..MaxPageSize :
        getFactoryChildAddressesCall(1, upToBlockNumber, Fac, pageSize)

NextChildrenLate ==
    \/ LtInsertFactoryChildAddressLogs
    \/ LtGetFactoryChildAddresses
    \/ getFactoryChildAddressesPage
    \/ getFactoryChildAddressesReturn

SpecChildrenLate == Init /\ [][NextChildrenLate]_vars

----------------------------------------------------------------------------
(* Calls of getLogEvents for the children of factory F, on a store whose     *)
(* factory logs are scanned apart from the blocks.                           *)

FcInsertFactoryChildAddressLogs ==
    /\ gle.pc = "idle"
    /\ \E l \in FactoryRpcLogs : insertFactoryChildAddressLogs(1, <<l>>)

FcGetLogEvents ==
    \E t \in {<<1, 2>>, <<2, 2>>}, pageSize \in 1..MaxPageSize :
        getLogEventsCall([fromTimestamp |-> t[1], toTimestamp |-> t[2], sources |-> {SourceF}],
                         pageSize)

NextFactory ==
    \/ EvInsertRealtimeBlock
    \/ FcInsertFactoryChildAddressLogs
    \/ FcGetLogEvents
    \/ getLogEventsPage
    \/ getLogEventsReturn

SpecFactory == Init /\ [][NextFactory]_vars

----------------------------------------------------------------------------
(* Calls of getLogEvents whose source has block bounds, given or not.        *)

BlockBounds == {Undefined} \cup (0..MaxBlock)

BoundedSources ==
    {[name |-> "r", kind |-> k[1], chainId |-> 1, criteria |-> k[2],
      fromBlock |-> fromBlock, toBlock |-> toBlock, includeEventSelectors |-> NoSelectors] :
        k \in {<<"logFilter", fAny>>, <<"factory", Fac>>},
        fromBlock \in BlockBounds, toBlock \in BlockBounds}

BdGetLogEvents ==
    \E source \in BoundedSources :
        getLogEventsCall([fromTimestamp |-> 1, toTimestamp |-> 2, sources |-> {source}],
                         MaxPageSize)

NextBounds ==
    \/ EvInsertRealtimeBlock
    \/ EvInsertFactoryChildAddressLogs
    \/ BdGetLogEvents
    \/ getLogEventsPage
    \/ getLogEventsReturn

SpecBounds == Init /\ [][NextBounds]_vars

----------------------------------------------------------------------------
(* Criteria written with arrays: coverage recorded and events requested for  *)
(* criteria whose address and topic0 are arrays of one or two values, or     *)
(* the scalars in their place.                                               *)

ArrayCriteria ==
    {[address |-> a, topics |-> <<t>>] :
        a \in {NullSlot, Many(<<"A">>)},
        t \in {NullSlot, Many(<<"X">>), Many(<<"X", "Y">>)}}

\* The criteria with the scalar x written for every array [x].
AsScalar(criteria) ==
    [address |-> IF criteria.address.k = "many" /\ Len(criteria.address.v) = 1
                 THEN One(criteria.address.v[1]) ELSE criteria.address,
     topics |-> [i \in DOMAIN criteria.topics |->
                    IF criteria.topics[i].k = "many" /\ Len(criteria.topics[i].v) = 1
                    THEN One(criteria.topics[i].v[1]) ELSE criteria.topics[i]]]

ArrayIntervals == {<<1, 1>>, <<1, 2>>, <<2, 2>>}

ArInsertLogFilterInterval ==
    \E f \in ArrayCriteria \cup {AsScalar(c) : c \in ArrayCriteria}, iv \in ArrayIntervals :
        /\ gle.pc = "idle"
        /\ Rows + Cardinality(buildLogFilterFragments(f, 1)) <= MaxIntervalRows
        /\ insertLogFilterInterval(1, f, RpcBlock("hA"), RpcTransactionsOf(RpcBlock("hA")),
                                   SetToSeq(RpcLogsOf(RpcBlock("hA"))), iv)

ArGetLogEvents ==
    \E c \in ArrayCriteria, pageSize \in 1..MaxPageSize :
        getLogEventsCall([fromTimestamp |-> 1, toTimestamp |-> 2,
                          sources |-> {[name |-> "s", kind |-> "logFilter", chainId |-> 1,
                                        criteria |-> c, fromBlock |-> Undefined,
                                        toBlock |-> Undefined,
                                        includeEventSelectors |-> NoSelectors]}],
                         pageSize)

NextArrays ==
    \/ EvInsertRealtimeBlock
    \/ ArInsertLogFilterInterval
    \/ ArGetLogEvents
    \/ getLogEventsPage
    \/ getLogEventsReturn

SpecArrays == Init /\ [][NextArrays]_vars

----------------------------------------------------------------------------
(* Memoized contract reads: results are written, read back and truncated.    *)

\* (chainId, blockNumber, request) of the calls.
RpcKeys == {<<1, 1, "q">>, <<1, 2, "q">>, <<2, 2, "q">>, <<1, 1, "p">>, <<2, 1, "q">>}

RpcResults == {"0x1", "0x2"}

RqInsertRpcRequestResult ==
    \E k \in RpcKeys \ {<<2, 1, "q">>}, result \in RpcResults :
        /\ rpc.pc = "idle"
        /\ insertRpcRequestResult(k[2], k[1], k[3], result)

RqGetRpcRequestResult ==
    \E k \in RpcKeys : getRpcRequestResult(k[2], k[1], k[3])

RqDeleteRealtimeData ==
    \E c \in Chains, p \in 0..MaxBlock :
        /\ rpc.pc = "idle"
        /\ deleteRealtimeData(c, p)

NextRequests ==
    \/ RqInsertRpcRequestResult
    \/ RqGetRpcRequestResult
    \/ getRpcRequestResultReturn
    \/ RqDeleteRealtimeData

SpecRequests == Init /\ [][NextRequests]_vars

----------------------------------------------------------------------------
(* The child address expression, character by character. Hex strings and    *)
(* locations are sequences of characters.                                    *)

HexDigits == <<"0", "1", "2", "3", "4", "5", "6", "7", "8", "9",
               "a", "b", "c", "d", "e", "f">>

DecDigits == <<"0", "1", "2", "3", "4", "5", "6", "7", "8", "9">>

\* SQL substring(s, start, length), start counted from 1, start >= 1.
Substring(s, start, length) == SubSeq(s, start, Min(start + length - 1, Len(s)))

\* Number(text) of a decimal text.
RECURSIVE Number(_)
Number(text) ==
    IF text = <<>> THEN 0
    ELSE 10 * Number(SubSeq(text, 1, Len(text) - 1))
            + (CHOOSE d \in 0..9 : DecDigits[d + 1] = text[Len(text)])

StartsWith(text, prefix) ==
    Len(text) >= Len(prefix) /\ SubSeq(text, 1, Len(prefix)) = prefix

\* sql.ref(name): the column of the row that has the name.
Column(row, name) ==
    CASE name = <<"t", "o", "p", "i", "c", "1">> -> row.topic1
      [] name = <<"t", "o", "p", "i", "c", "2">> -> row.topic2
      [] name = <<"t", "o", "p", "i", "c", "3">> -> row.topic3

\* A changed expression: the offset counts from the start of the data, with no
\* 12 bytes of padding skipped.
buildFactoryChildAddressSelectExpression_NoPadding(childAddressLocation, row) ==
    IF StartsWith(childAddressLocation, <<"o", "f", "f", "s", "e", "t">>)
    THEN LET childAddressOffset == Number(SubSeq(childAddressLocation, 7,
                                                 Len(childAddressLocation)))
             start == 2 + childAddressOffset * 2 + 1
             length == 20 * 2
         IN  <<"0", "x">> \o Substring(row.data, start, length)
    ELSE LET start == 2 + 12 * 2 + 1
             length == 20 * 2
         IN  <<"0", "x">> \o Substring(Column(row, childAddressLocation), start, length)

\* buildFactoryChildAddressSelectExpression, evaluated on a row of logs.
buildFactoryChildAddressSelectExpression(childAddressLocation, row) ==
    IF StartsWith(childAddressLocation, <<"o", "f", "f", "s", "e", "t">>)
    THEN LET childAddressOffset == Number(SubSeq(childAddressLocation, 7,
                                                 Len(childAddressLocation)))
             start == 2 + 12 * 2 + childAddressOffset * 2 + 1
             length == 20 * 2
         IN  <<"0", "x">> \o Substring(row.data, start, length)
    ELSE LET start == 2 + 12 * 2 + 1
             length == 20 * 2
         IN  <<"0", "x">> \o Substring(Column(row, childAddressLocation), start, length)

\* The hex text of n bytes, byte i (from 0) of value (i + first) % 256.
RECURSIVE HexOf(_, _)
HexOf(n, first) ==
    IF n = 0 THEN <<>>
    ELSE HexOf(n - 1, first)
            \o <<HexDigits[(((n - 1 + first) % 256) \div 16) + 1],
                  HexDigits[((n - 1 + first) % 16) + 1]>>

Hex(n, first) == <<"0", "x">> \o HexOf(n, first)

ChildLocations ==
    {<<"t", "o", "p", "i", "c", "1">>, <<"t", "o", "p", "i", "c", "2">>,
     <<"t", "o", "p", "i", "c", "3">>, <<"o", "f", "f", "s", "e", "t", "0">>,
     <<"o", "f", "f", "s", "e", "t", "4">>, <<"o", "f", "f", "s", "e", "t", "3", "2">>}

\* Rows of logs: three topics of 32 bytes and data of 32 to 68 bytes.
ChildRows ==
    {[topic1 |-> Hex(32, 16 * first + 1), topic2 |-> Hex(32, 16 * first + 2),
      topic3 |-> Hex(32, 16 * first + 3), data |-> Hex(size, 16 * first + 4)] :
        first \in 0..7, size \in {32, 36, 64, 68}}

InitChildAddress ==
    /\ InitStore
    /\ gle = IdleIteration
    /\ gfca = IdleChildAddresses
    /\ txn = IdleTransaction
    /\ rpc = IdleRequest
    /\ runner = NewPonder
    /\ calc \in {[fn |-> "childAddress",
                   in |-> [childAddressLocation |-> l, row |-> r],
                   out |-> <<>>, done |-> FALSE] : l \in ChildLocations, r \in ChildRows}

SelectChildAddress ==
    /\ calc.fn = "childAddress"
    /\ ~calc.done
    /\ calc' = [calc EXCEPT
                    !.out = buildFactoryChildAddressSelectExpression(
                                calc.in.childAddressLocation, calc.in.row),
                    !.done = TRUE]
    /\ UNCHANGED <<tables, glfi, gle, recorded, gfca, txn, rpc, runner>>

SpecChildAddress == InitChildAddress /\ [][SelectChildAddress]_vars

----------------------------------------------------------------------------
(* The read operations side by side: the store is filled while no read is in *)
(* progress, then the five reads run, one step of any of them at a time.     *)

ReadsIdle ==
    glfi.pc = "idle" /\ gle.pc = "idle" /\ gfca.pc = "idle" /\ rpc.pc = "idle"

RdInsertRealtimeBlock ==
    /\ ReadsIdle
    /\ \E b \in {RpcBlock("hA"), RpcBlock("hB")} :
          insertRealtimeBlock(b.chain, b, RpcTransactionsOf(b), SetToSeq(RpcLogsOf(b)))

RdInsertLogFilterInterval ==
    \E iv \in {<<1, 1>>, <<2, 2>>} :
        /\ ReadsIdle
        /\ Rows < MaxIntervalRows
        /\ insertLogFilterInterval(1, fX, RpcBlock("hA"), RpcTransactionsOf(RpcBlock("hA")),
                                   SetToSeq(RpcLogsOf(RpcBlock("hA"))), iv)

RdInsertFactoryLogFilterInterval ==
    \E iv \in {<<1, 1>>, <<2, 2>>} :
        /\ ReadsIdle
        /\ Rows < MaxIntervalRows
        /\ insertFactoryLogFilterInterval(1, Fac, RpcBlock("hA"),
                                          RpcTransactionsOf(RpcBlock("hA")),
                                          SetToSeq(RpcLogsOf(RpcBlock("hA"))), iv)

RdInsertRpcRequestResult ==
    /\ ReadsIdle
    /\ insertRpcRequestResult(1, 1, "q", "0x1")

RdGetLogFilterIntervals ==
    \E f \in {fAny, fX} : getIntervalsCall("logFilter", 1, f)

RdGetFactoryLogFilterIntervals == getIntervalsCall("factory", 1, Fac)

RdGetLogEvents ==
    getLogEventsCall([fromTimestamp |-> 1, toTimestamp |-> 2, sources |-> {SourceA}], 1)

RdGetFactoryChildAddresses == getFactoryChildAddressesCall(1, MaxBlock, Fac, 1)

RdGetRpcRequestResult ==
    \E n \in 1..MaxBlock : getRpcRequestResult(n, 1, "q")

NextReads ==
    \/ RdInsertRealtimeBlock
    \/ RdInsertLogFilterInterval
    \/ RdInsertFactoryLogFilterInterval
    \/ RdInsertRpcRequestResult
    \/ RdGetLogFilterIntervals
    \/ RdGetFactoryLogFilterIntervals
    \/ CovMerge
    \/ getIntervalsRead
    \/ getIntervalsReturn
    \/ RdGetLogEvents
    \/ getLogEventsPage
    \/ getLogEventsReturn
    \/ RdGetFactoryChildAddresses
    \/ getFactoryChildAddressesPage
    \/ getFactoryChildAddressesReturn
    \/ RdGetRpcRequestResult
    \/ getRpcRequestResultReturn

SpecReads == Init /\ [][NextReads]_vars

----------------------------------------------------------------------------
(* The interval functions applied to lists in any order, with overlapping,  *)
(* touching and repeated intervals.                                          *)

IntervalLists == UNION {[1..n -> Intervals] : n \in 0..MaxListLen}

InitIntervals ==
    /\ InitStore
    /\ gle = IdleIteration
    /\ gfca = IdleChildAddresses
    /\ txn = IdleTransaction
    /\ rpc = IdleRequest
    /\ runner = NewPonder
    /\ calc \in {[fn |-> "intervals", in |-> [list |-> l], out |-> <<>>, done |-> FALSE] :
                    l \in IntervalLists}

\* intervalUnion once and twice, intervalIntersectionMany of the list alone
\* and of the list with itself.
ApplyIntervalFunctions ==
    /\ calc.fn = "intervals"
    /\ ~calc.done
    /\ calc' = [calc EXCEPT
                    !.out = [union |-> intervalUnion(calc.in.list),
                             unionOfUnion |-> intervalUnion(intervalUnion(calc.in.list)),
                             alone |-> intervalIntersectionMany(<<calc.in.list>>),
                             withItself |-> intervalIntersectionMany(<<calc.in.list,
                                                                       calc.in.list>>)],
                    !.done = TRUE]
    /\ UNCHANGED <<tables, glfi, gle, recorded, gfca, txn, rpc, runner>>

SpecIntervals == InitIntervals /\ [][ApplyIntervalFunctions]_vars

----------------------------------------------------------------------------
(* Truncation on a store of two chains: blocks, cached results and intervals *)
(* of log filters and factories are stored on both chains, then cut.         *)

TrInsertRealtimeBlock ==
    \E b \in {RpcBlock("hA"), RpcBlock("hB"), RpcBlock("hC")} :
        insertRealtimeBlock(b.chain, b, RpcTransactionsOf(b), SetToSeq(RpcLogsOf(b)))

TrInsertRpcRequestResult ==
    \E c \in Chains : insertRpcRequestResult(MaxBlock, c, "q", "0x1")

TrInsertRealtimeInterval ==
    \E c \in Chains, lfs \in {<<>>, <<fAny>>}, fas \in {<<>>, <<Fac>>}, iv \in Intervals :
        /\ Len(lfs) + Len(fas) = 1
        /\ Rows + Len(lfs) + 2 * Len(fas) <= MaxIntervalRows
        /\ insertRealtimeInterval(c, lfs, fas, iv)

TrDeleteRealtimeData ==
    \E c \in Chains, p \in 0..MaxBlock : deleteRealtimeData(c, p)

NextTruncate ==
    \/ TrInsertRealtimeBlock
    \/ TrInsertRpcRequestResult
    \/ TrInsertRealtimeInterval
    \/ TrDeleteRealtimeData

SpecTruncate == Init /\ [][NextTruncate]_vars

----------------------------------------------------------------------------
(* Coverage queries with an insertion between the merge transactions and the *)
(* read: intervals are inserted while no query runs and in that window.      *)

BetweenMergeAndRead == glfi.pc = "merge" /\ glfi.todo = {}

MgInsertLogFilterInterval ==
    \E f \in {fX, fAny}, iv \in Intervals :
        /\ glfi.pc = "idle" \/ BetweenMergeAndRead
        /\ Rows < MaxIntervalRows
        /\ insertLogFilterInterval(1, f, RpcBlock("hA"), RpcTransactionsOf(RpcBlock("hA")),
                                   SetToSeq(RpcLogsOf(RpcBlock("hA"))), iv)

MgInsertFactoryLogFilterInterval ==
    \E iv \in Intervals :
        /\ glfi.pc = "idle" \/ BetweenMergeAndRead
        /\ Rows < MaxIntervalRows
        /\ insertFactoryLogFilterInterval(1, Fac, RpcBlock("hA"),
                                          RpcTransactionsOf(RpcBlock("hA")),
                                          SetToSeq(RpcLogsOf(RpcBlock("hA"))), iv)

MgGetLogFilterIntervals ==
    \E f \in {fX, fXY} : getIntervalsCall("logFilter", 1, f)

MgGetFactoryLogFilterIntervals == getIntervalsCall("factory", 1, Fac)

NextMerge ==
    \/ MgInsertLogFilterInterval
    \/ MgInsertFactoryLogFilterInterval
    \/ MgGetLogFilterIntervals
    \/ MgGetFactoryLogFilterIntervals
    \/ CovMerge
    \/ getIntervalsRead
    \/ getIntervalsReturn

SpecMerge == Init /\ [][NextMerge]_vars

----------------------------------------------------------------------------
(* SpecClamp: intervals recorded, truncated and merged. The realtime         *)
(* intervals of chain 2 all end at MaxBlock, so a row of chain 2 that ends    *)
(* lower has been clamped by deleteRealtimeData.                              *)

ClInsertLogFilterInterval ==
    \E iv \in Intervals :
        /\ Rows < MaxIntervalRows
        /\ glfi.pc # "done"
        /\ insertLogFilterInterval(1, fX, RpcBlock("hA"), RpcTransactionsOf(RpcBlock("hA")),
                                   SetToSeq(RpcLogsOf(RpcBlock("hA"))), iv)

ClInsertRealtimeInterval ==
    \E lfs \in {<<>>, <<fX>>}, fas \in {<<>>, <<Fac>>}, a \in 0..MaxBlock :
        /\ Len(lfs) + Len(fas) > 0
        /\ Rows + Len(lfs) + 2 * Len(fas) <= MaxIntervalRows
        /\ glfi.pc # "done"
        /\ insertRealtimeInterval(2, lfs, fas, <<a, MaxBlock>>)

ClDeleteRealtimeData ==
    \E c \in Chains, p \in 0..MaxBlock :
        /\ glfi.pc # "done"
        /\ deleteRealtimeData(c, p)

ClGetLogFilterIntervals == \E c \in Chains : getIntervalsCall("logFilter", c, fX)

ClGetFactoryLogFilterIntervals == getIntervalsCall("factory", 2, Fac)

NextClamp ==
    \/ ClInsertLogFilterInterval
    \/ ClInsertRealtimeInterval
    \/ ClDeleteRealtimeData
    \/ ClGetLogFilterIntervals
    \/ ClGetFactoryLogFilterIntervals
    \/ CovMerge
    \/ getIntervalsRead
    \/ getIntervalsReturn

SpecClamp == Init /\ [][NextClamp]_vars

----------------------------------------------------------------------------
(* SpecJoin: intervals recorded on two chains under broader and narrower     *)
(* criteria, and coverage queries on chain 1 for the narrower ones.           *)

fAX == [address |-> One("A"), topics |-> <<One("X")>>]

FacX == [address |-> "F", eventSelector |-> "E", childAddressLocation |-> "topic1",
         topics |-> <<One("X")>>]

JoinIntervals == {<<0, 0>>, <<1, MaxBlock>>, <<0, MaxBlock>>}

JnInsertLogFilterInterval ==
    \E c \in Chains, f \in {fAny, fX, fAX}, iv \in JoinIntervals :
        /\ Rows < MaxIntervalRows
        /\ glfi.pc # "done"
        /\ insertLogFilterInterval(c, f, RpcBlock("hA"), RpcTransactionsOf(RpcBlock("hA")),
                                   SetToSeq(RpcLogsOf(RpcBlock("hA"))), iv)

JnInsertFactoryLogFilterInterval ==
    \E c \in Chains, f \in {Fac, FacX}, iv \in JoinIntervals :
        /\ Rows < MaxIntervalRows
        /\ glfi.pc # "done"
        /\ insertFactoryLogFilterInterval(c, f, RpcBlock("hA"),
                                          RpcTransactionsOf(RpcBlock("hA")),
                                          SetToSeq(RpcLogsOf(RpcBlock("hA"))), iv)

JnGetLogFilterIntervals ==
    \E f \in {fX, fAX, fXY} : getIntervalsCall("logFilter", 1, f)

JnGetFactoryLogFilterIntervals == getIntervalsCall("factory", 1, FacX)

NextJoin ==
    \/ JnInsertLogFilterInterval
    \/ JnInsertFactoryLogFilterInterval
    \/ JnGetLogFilterIntervals
    \/ JnGetFactoryLogFilterIntervals
    \/ CovMerge
    \/ getIntervalsRead
    \/ getIntervalsReturn

SpecJoin == Init /\ [][NextJoin]_vars

SpecRunner == Init /\ [][NextRunner]_vars

----------------------------------------------------------------------------
(* The transactional methods, statement by statement, with statements that   *)
(* may fail.                                                                 *)

TxMaxRows == 2

TxBlocks == {b \in RpcBlocks : b.hash \in {"hA", "hD"}}

TxInsertRealtimeBlock ==
    \E b \in TxBlocks :
        txBegin("insertRealtimeBlock", [chainId |-> b.chain, fromBlock |-> 0],
                BlockStatements(b.chain, b, RpcTransactionsOf(b), SetToSeq(RpcLogsOf(b))), <<>>)

TxInsertFactoryChildAddressLogs ==
    txBegin("insertFactoryChildAddressLogs", [chainId |-> 1, fromBlock |-> 0],
            [i \in 1..2 |-> [op |-> "insertLog", chainId |-> 1,
                             log |-> SetToSeq({l \in FactoryRpcLogs : l.blockHash = "hA"})[i]]],
            <<>>)

TxInsertLogFilterInterval ==
    \E f \in {fX, fXY}, b \in TxBlocks :
        /\ Rows + Cardinality(buildLogFilterFragments(f, 1)) <= TxMaxRows
        /\ txBegin("insertLogFilterInterval", [chainId |-> 1, fromBlock |-> 0],
                   BlockStatements(1, b, RpcTransactionsOf(b), SetToSeq(RpcLogsOf(b))),
                   <<LogFilterTasks(<<f>>, 1, <<b.number, b.number>>)>>)

TxInsertFactoryLogFilterInterval ==
    \E b \in TxBlocks :
        /\ Rows + 1 <= TxMaxRows
        /\ txBegin("insertFactoryLogFilterInterval", [chainId |-> 1, fromBlock |-> 0],
                   BlockStatements(1, b, RpcTransactionsOf(b), SetToSeq(RpcLogsOf(b))),
                   <<FactoryTasks(<<Fac>>, 1, <<b.number, b.number>>)>>)

TxInsertRealtimeInterval ==
    \E lfs \in {<<fX>>, <<>>}, fas \in {<<>>, <<Fac>>} :
        /\ Len(lfs) + Len(fas) > 0
        /\ Rows + Len(lfs) + 2 * Len(fas) <= TxMaxRows
        /\ txBegin("insertRealtimeInterval", [chainId |-> 1, fromBlock |-> 0], <<>>,
                   <<LogFilterTasks(lfs \o FactoriesAsLogFilters(fas), 1, <<1, 2>>),
                     FactoryTasks(fas, 1, <<1, 2>>)>>)

TxDeleteRealtimeData ==
    \E p \in 0..1 :
        txBegin("deleteRealtimeData", [chainId |-> 1, fromBlock |-> p],
                DeleteStatements(1, encodeAsText(p)), <<>>)

NextTx ==
    \/ TxInsertRealtimeBlock
    \/ TxInsertFactoryChildAddressLogs
    \/ TxInsertLogFilterInterval
    \/ TxInsertFactoryLogFilterInterval
    \/ TxInsertRealtimeInterval
    \/ TxDeleteRealtimeData
    \/ txStatement
    \/ txStatementFails
    \/ txPhase
    \/ txTaskStatement
    \/ txTaskStatementFails
    \/ txLateStatement
    \/ txCommit
    \/ txReturn

SpecTx == Init /\ [][NextTx]_vars

----------------------------------------------------------------------------
(* Properties of interval recording and the coverage queries.               *)

\* The rows of one fragment are pairwise disjoint and non-touching, none twice.
DisjointRows(table, fragmentId) ==
    /\ \A r \in BagToSet(table) : r.fk = fragmentId => table[r] = 1
    /\ \A x, y \in IntervalsOf(table, fragmentId) :
          x # y => (x[2] + 1 < y[1] \/ y[2] + 1 < x[1])

AllRowsDisjoint(lfi, fli) ==
    /\ \A r \in BagToSet(lfi) : DisjointRows(lfi, r.fk)
    /\ \A r \in BagToSet(fli) : DisjointRows(fli, r.fk)

\* The fragments of the coverage query in progress.
CallFragments == FragmentsOf(glfi.kind, glfi.criteria, glfi.chainId)

\* The block numbers recorded, and not truncated since, for a fragment id.
RecordedFor(fragmentId) == {p[2] : p \in {q \in recorded : q[1] = fragmentId}}

\* The block numbers recorded for a requested fragment through every stored
\* fragment the read joins to it.
CoverageOf(fragment, chainId) ==
    UNION {RecordedFor(st.id) : st \in JoinedFragments(logFilters, "logFilter", fragment, chainId)}

\* The ascending list of the maximal runs of a set of block numbers.
RunsOf(points) == UnionOfSet({<<n, n>> : n \in points})

C4_RecordedIntervalIsReturned ==
    (glfi.pc = "done" /\ glfi.kind = "logFilter") =>
        \A iv \in Intervals :
            (\A f \in CallFragments, n \in iv[1]..iv[2] : <<f.id, n>> \in recorded) =>
                \E i \in DOMAIN glfi.ret : glfi.ret[i][1] <= iv[1] /\ iv[2] <= glfi.ret[i][2]

\* C4 witness: a query has returned a list that holds a recorded interval.
C4_Witness ==
    /\ glfi.pc = "done"
    /\ glfi.kind = "logFilter"
    /\ \E iv \in Intervals :
          /\ \A f \in CallFragments, n \in iv[1]..iv[2] : <<f.id, n>> \in recorded
          /\ \E i \in DOMAIN glfi.ret : glfi.ret[i] = iv

\* C5: for a filter of one fragment, when nothing is recorded on the chain but
\* for that fragment, getLogFilterIntervals returns the union of the recorded
\* intervals: the maximal runs of the recorded block numbers, so overlapping
\* and touching intervals are one and the others stay apart.
C5_SingleFragmentReturnsUnion ==
    (/\ glfi.pc = "done"
     /\ glfi.kind = "logFilter"
     /\ Cardinality(CallFragments) = 1
     /\ \A q \in recorded : q[1][1] = glfi.chainId => q[1] \in {f.id : f \in CallFragments}) =>
        \A f \in CallFragments : glfi.ret = RunsOf(RecordedFor(f.id))

\* C5 witness: the query of a one-fragment filter has returned one interval
\* that spans every block number and another query two intervals.
C5_Witness ==
    /\ glfi.pc = "done"
    /\ glfi.kind = "logFilter"
    /\ Cardinality(CallFragments) = 1
    /\ \A q \in recorded : q[1][1] = glfi.chainId => q[1] \in {f.id : f \in CallFragments}
    /\ glfi.ret = <<(<<0, MaxBlock>>)>>

\* C6: getLogFilterIntervals returns, as an ascending list of disjoint and
\* non-touching intervals, the intersection over the filter's fragments of the
\* coverage recorded for each fragment.
C6_ReturnsIntersectionOfFragments ==
    (glfi.pc = "done" /\ glfi.kind = "logFilter") =>
        /\ IsCanonical(glfi.ret)
        /\ \A n \in 0..MaxBlock :
              n \in PointsOf(glfi.ret) <=>
                  \A f \in CallFragments : n \in CoverageOf(f, glfi.chainId)

\* C6 witness: the query of a filter of two fragments has returned a range
\* that is covered for both, while another range is covered for one only.
C6_Witness ==
    /\ glfi.pc = "done"
    /\ glfi.kind = "logFilter"
    /\ Cardinality(CallFragments) = 2
    /\ glfi.ret # <<>>
    /\ \E f \in CallFragments : CoverageOf(f, glfi.chainId) # PointsOf(glfi.ret)

\* The rows of a chain, by the chain of their fragment.
RowsOfChain(table, fragmentTable, chainId) ==
    {r \in BagToSet(table) : ChainOfRow(fragmentTable, r) = chainId}

EndsBy(rows, p) ==
    \A r \in rows : decodeToBigInt(r.startBlock) <= p /\ decodeToBigInt(r.endBlock) <= p

\* C9: after deleteRealtimeData(c, p) every interval row of a fragment or
\* factory of chain c has startBlock <= p and endBlock <= p; a row that
\* started after p is gone and a row that straddled p ends at p.
C9_IntervalsEndAtPivot ==
    [][\A c \in Chains, p \in 0..MaxBlock :
          deleteRealtimeData(c, p) =>
              /\ EndsBy(RowsOfChain(logFilterIntervals', logFilters', c), p)
              /\ EndsBy(RowsOfChain(factoryLogFilterIntervals', factories', c), p)
              /\ \A r \in RowsOfChain(logFilterIntervals, logFilters, c) :
                    (decodeToBigInt(r.startBlock) <= p /\ decodeToBigInt(r.endBlock) > p) =>
                        [r EXCEPT !.endBlock = encodeAsText(p)]
                            \in BagToSet(logFilterIntervals')]_vars

\* C9 witness: chain 1 holds no block any more (deleteRealtimeData(1, 0) has
\* run) and an interval row of chain 1 is left; it ends at 0.
C9_Witness ==
    /\ blocks = {}
    /\ RowsOfChain(logFilterIntervals, logFilters, 1) # {}

\* insertLogFilterInterval once and twice with the same arguments.
Once(f, iv) ==
    insertLogFilterIntervalTx(Written, 1, f, RpcBlock("hA"), RpcTransactionsOf(RpcBlock("hA")),
                              SetToSeq(RpcLogsOf(RpcBlock("hA"))), iv)

Twice(f, iv) ==
    insertLogFilterIntervalTx(Once(f, iv), 1, f, RpcBlock("hA"),
                              RpcTransactionsOf(RpcBlock("hA")),
                              SetToSeq(RpcLogsOf(RpcBlock("hA"))), iv)

FragmentOf(f) == CHOOSE fr \in buildLogFilterFragments(f, 1) : TRUE

\* [0, 10] is what is recorded for topic X alone and [5, 15] for topic Y alone.
C7_Recorded ==
    /\ IntervalsOf(logFilterIntervals, FragmentOf(fX).id) = {<<0, 10>>}
    /\ IntervalsOf(logFilterIntervals, FragmentOf(fY).id) = {<<5, 15>>}
    /\ glfi.pc = "done"
    /\ glfi.criteria = fXY

\* C7 as claimed: with [0, 10] recorded for topic A alone and [5, 15] for
\* topic B alone, getLogFilterIntervals of the filter on [A, B] returns the
\* empty list.
C7_ReturnsEmpty == C7_Recorded => glfi.ret = <<>>

\* C7 as amended: with [0, 10] recorded for topic A alone and [5, 15] for
\* topic B alone, getLogFilterIntervals of the filter on [A, B] returns
\* [[5, 10]], the range recorded for both topics.
C7_ReturnsCommonRange == C7_Recorded => glfi.ret = <<(<<5, 10>>)>>

\* C7 witness: the query of the two-topic filter has returned on that store.
C7_Witness == C7_Recorded /\ Len(glfi.ret) = 1

\* No row of the chain lies above the pivot in the given number column.
NoneAbove(table, chainId, p, column) ==
    \A r \in table : ~(r.chainId = chainId /\ decodeToBigInt(r[column]) > p)

\* C8: after deleteRealtimeData(c, p) blocks holds no row of chain c with
\* number > p, and transactions, logs and rpcRequestResults hold no row of
\* chain c with blockNumber > p.
C8_NoRawRowAbovePivot ==
    [][\A c \in Chains, p \in 0..MaxBlock :
          deleteRealtimeData(c, p) =>
              /\ NoneAbove(blocks', c, p, "number")
              /\ NoneAbove(transactions', c, p, "blockNumber")
              /\ NoneAbove(logs', c, p, "blockNumber")
              /\ NoneAbove(rpcRequestResults', c, p, "blockNumber")]_vars

\* C8 witness: a coverage query returned block 2 of chain 1 as covered and the
\* interval rows of chain 1 end at block 1 now, so deleteRealtimeData(1, 1)
\* has run since; block 1 of chain 1 is kept with its transaction and log,
\* and so is a cached result of chain 2 at block 2.
C8_Witness ==
    /\ glfi.pc = "done"
    /\ 2 \in PointsOf(glfi.ret)
    /\ \A r \in RowsOfChain(logFilterIntervals, logFilters, 1) :
          decodeToBigInt(r.endBlock) = 1
    /\ RowsOfChain(logFilterIntervals, logFilters, 1) # {}
    /\ \E r \in blocks : r.chainId = 1 /\ decodeToBigInt(r.number) = 1
    /\ \E r \in transactions : r.chainId = 1
    /\ \E r \in logs : r.chainId = 1
    /\ \E r \in rpcRequestResults : r.chainId = 2 /\ decodeToBigInt(r.blockNumber) = 2
    /\ NoneAbove(blocks, 1, 1, "number")
    /\ NoneAbove(rpcRequestResults, 1, 1, "blockNumber")

----------------------------------------------------------------------------
(* Properties of getLogEvents.                                              *)

\* The events of the pages yielded so far, concatenated.
RECURSIVE EventsFrom(_, _)
EventsFrom(pages, i) ==
    IF i > Len(pages) THEN <<>> ELSE pages[i].events \o EventsFrom(pages, i + 1)

AllEvents == EventsFrom(gle.pages, 1)

\* The stored logs the request matches: some source selects them and their
\* block's timestamp is within the request's bounds.
MatchingLogs == {row.log : row \in IncludedRows(logs, blocks, gle.request)}

SourcesMatching(log) ==
    {row.eventSourceName : row \in {r \in IncludedRows(logs, blocks, gle.request) : r.log = log}}

TimesYielded(log) == Cardinality({i \in DOMAIN AllEvents : AllEvents[i].log.id = log.id})

\* No two stored logs share the ordering key: the store holds one block per
\* chain and block number.
UniqueKeys ==
    \A b, c \in blocks : (b.chainId = c.chainId /\ b.number = c.number) => b = c

EventKey(e) == <<e.block.timestamp, e.chainId, e.block.number, e.log.logIndex>>

EventKeyLess(k, c) ==
    \/ k[1] < c[1]
    \/ k[1] = c[1] /\ k[2] < c[2]
    \/ k[1] = c[1] /\ k[2] = c[2] /\ k[3] < c[3]
    \/ k[1] = c[1] /\ k[2] = c[2] /\ k[3] = c[3] /\ k[4] < c[4]

----------------------------------------------------------------------------
(* Properties of getFactoryChildAddresses.                                   *)

\* The logs behind the yielded pages, in the order of their addresses.
RECURSIVE Concat(_)
Concat(seqs) == IF seqs = <<>> THEN <<>> ELSE Head(seqs) \o Concat(Tail(seqs))

YieldedLogs == Concat(gfca.batches)

\* The stored logs the call is to give an address for.
ChildLogs == ChildAddressRows(logs, gfca.chainId, gfca.upToBlockNumber, gfca.factory, NoCursor)

BatchesAscend ==
    \A i, j \in 1..Len(YieldedLogs) :
        i < j => TextLeq(YieldedLogs[i].blockNumber, YieldedLogs[j].blockNumber)

\* Every batch held the rows of its query that are lowest in blockNumber.
BatchesLowestFirst ==
    \A k \in 1..Len(gfca.batches) :
        LET batch == gfca.batches[k]
            before == IF k = 1 THEN NoCursor
                      ELSE gfca.batches[k - 1][Len(gfca.batches[k - 1])].blockNumber
        IN  \A r \in ChildAddressRows(logs, gfca.chainId, gfca.upToBlockNumber,
                                      gfca.factory, before) \ Range(batch) :
                TextLeq(batch[Len(batch)].blockNumber, r.blockNumber)

\* C12: when the iteration has ended, every stored log of the factory's event
\* up to the block number has given its child address in some page; stated
\* here for the iterations whose rows came back lowest blockNumber first, where
\* it fails for logs that share a blockNumber across a page boundary.
C12_NoLogSkipped ==
    (gfca.pc = "done" /\ BatchesAscend /\ BatchesLowestFirst) =>
        /\ \A l \in ChildLogs : \E i \in 1..Len(YieldedLogs) : YieldedLogs[i] = l
        /\ Concat(gfca.pages) =
              [i \in 1..Len(YieldedLogs) |->
                    ChildAddress(YieldedLogs[i], gfca.factory.childAddressLocation)]

\* C13: the child addresses, concatenated over the pages, are in
\* non-decreasing order of the blockNumber of the log they come from.
C13_AddressesAscendByBlock == BatchesAscend

----------------------------------------------------------------------------
(* Properties of the pages of getLogEvents.                                  *)

\* C19: the pageEndsAtTimestamp of a page is the block timestamp of its last
\* event when the page has events, and the toTimestamp of the call when it
\* has none.
C19_PageEndsAtLastEventOrBound ==
    \A k \in 1..Len(gle.pages) :
        LET page == gle.pages[k]
            n == Len(page.events)
        IN  page.metadata.pageEndsAtTimestamp =
                IF n > 0 THEN page.events[n].block.timestamp ELSE gle.request.toTimestamp

\* A page with events that ends before toTimestamp, followed by an empty page.
C19_Witness ==
    \E k \in 1..Len(gle.pages) :
        /\ k > 1
        /\ gle.pages[k].events = <<>>
        /\ gle.pages[k].metadata.pageEndsAtTimestamp = gle.request.toTimestamp
        /\ gle.pages[k - 1].events # <<>>
        /\ gle.pages[k - 1].metadata.pageEndsAtTimestamp < gle.request.toTimestamp

PagesBeforeLastAreFull ==
    \A k \in 1..(Len(gle.pages) - 1) : Len(gle.pages[k].events) = gle.pageSize

LastPage == gle.pages[Len(gle.pages)]

\* The loop is running exactly while every page so far was full, and has ended
\* exactly after the first page that was not.
StopsAfterFirstShortPage ==
    /\ gle.pc \in {"paging", "done"} => PagesBeforeLastAreFull
    /\ gle.pc = "paging" => (gle.pages # <<>> => Len(LastPage.events) = gle.pageSize)
    /\ gle.pc = "done" => (gle.pages # <<>> /\ Len(LastPage.events) < gle.pageSize)

\* C20: with no writes during the iteration, an iteration of getLogEvents
\* ends; it ends exactly after the first page with fewer than pageSize events,
\* and every page before that one holds exactly pageSize events.
C20_IterationEndsAfterFirstShortPage ==
    /\ []StopsAfterFirstShortPage
    /\ (gle.pc = "paging") ~> (gle.pc = "done")

\* An iteration that ended on its third page, after two pages of two events.
C20_Witness ==
    /\ gle.pc = "done"
    /\ gle.pageSize = 2
    /\ Len(gle.pages) = 3
    /\ Len(gle.pages[1].events) = 2 /\ Len(gle.pages[2].events) = 2
    /\ Len(LastPage.events) < 2

----------------------------------------------------------------------------
(* Properties of metadata.counts.                                            *)

Selectors == {l.topic0 : l \in logs}

\* The stored logs of a block within the request's timestamps that satisfy the
\* source's conditions, whatever its includeEventSelectors, with the selector.
LogsCounted(source, selector) ==
    {l \in logs :
        /\ l.topic0 = selector
        /\ \E b \in blocks :
              /\ b.hash = l.blockHash
              /\ gle.request.fromTimestamp <= decodeToBigInt(b.timestamp)
              /\ decodeToBigInt(b.timestamp) <= gle.request.toTimestamp
              /\ SourceCmprs(source, l, b, logs)}

CountsOf(counts, name, selector) ==
    {c \in counts : c.eventSourceName = name /\ c.selector = selector}

\* C15: the counts of a call hold, for each source of the request and each
\* topic0, the number of stored logs within the timestamps that satisfy the
\* source's conditions without its includeEventSelectors, in one entry, and
\* no entry where that number is 0; every page carries these counts.
C15_CountsIgnoreIncludedSelectors ==
    gle.pc # "idle" =>
        /\ \A src \in gle.request.sources, selector \in Selectors :
              LET n == Cardinality(LogsCounted(src, selector))
              IN  CountsOf(gle.counts, src.name, selector) =
                      IF n = 0 THEN {}
                      ELSE {[eventSourceName |-> src.name, selector |-> selector, count |-> n]}
        /\ \A c \in gle.counts :
              /\ c.selector \in Selectors
              /\ \E src \in gle.request.sources : src.name = c.eventSourceName
        /\ \A k \in 1..Len(gle.pages) : gle.pages[k].metadata.counts = gle.counts

\* Source s includes only X: the pages hold its three X events and no Y event,
\* and the counts say X: 3, Y: 2.
C15_Witness ==
    /\ gle.pc = "done"
    /\ [eventSourceName |-> "s", selector |-> "X", count |-> 3] \in LastPage.metadata.counts
    /\ [eventSourceName |-> "s", selector |-> "Y", count |-> 2] \in LastPage.metadata.counts
    /\ \A k \in 1..Len(gle.pages) : \A i \in 1..Len(gle.pages[k].events) :
          gle.pages[k].events[i].eventSourceName = "s" =>
              gle.pages[k].events[i].log.topics[1] = "X"
    /\ \E k \in 1..Len(gle.pages) : \E i \in 1..Len(gle.pages[k].events) :
          gle.pages[k].events[i].eventSourceName = "s"

----------------------------------------------------------------------------
(* Properties of getLogEvents with writers between its pages.                *)

LastKeyOf(page) == EventKey(page.events[Len(page.events)])

\* The ordering key of a joined row, as numbers.
DecodedKeyOf(row) ==
    <<decodeToBigInt(row.block.timestamp), row.log.chainId, decodeToBigInt(row.block.number),
      row.log.logIndex>>

\* The events of a page whose log was not in the store at an earlier page.
WrittenAfter(k, j) ==
    {i \in 1..Len(gle.pages[j].events) : gle.pages[j].events[i].log.id \notin gle.stored[k]}

\* C11: with writers between the pages, every event of a later page, whether
\* its log was written before or after page k, has a key strictly greater than
\* the last key of page k; a log at or before that key is in no later page.
C11_LaterPagesAreAfterTheCursor ==
    \A k, j \in 1..Len(gle.pages) :
        (k < j /\ gle.pages[k].events # <<>>) =>
            \A i \in 1..Len(gle.pages[j].events) :
                EventKeyLess(LastKeyOf(gle.pages[k]), EventKey(gle.pages[j].events[i]))

\* After page 1, a log with a higher key and a matching log with a lower key
\* were written: the iteration has ended, a later page holds the first and no
\* page holds the second.
C11_Witness ==
    /\ gle.pc = "done"
    /\ Len(gle.pages) >= 2
    /\ gle.pages[1].events # <<>>
    /\ \E j \in 2..Len(gle.pages) : WrittenAfter(1, j) # {}
    /\ \E row \in IncludedRows(logs, blocks, gle.request) :
          /\ row.log.id \notin gle.stored[1]
          /\ ~EventKeyLess(LastKeyOf(gle.pages[1]), DecodedKeyOf(row))
          /\ TimesYielded(row.log) = 0

\* C14: every page of one call carries the same metadata.counts, also when
\* logs are added or removed between the pages.
C14_CountsSameOnEveryPage ==
    \A k \in 1..Len(gle.pages) :
        gle.pages[k].metadata.counts = gle.pages[1].metadata.counts

\* The store changed between page 1 and page 2, and page 2 carries counts
\* that are not the counts of the store it was read from.
C14_Witness ==
    /\ Len(gle.pages) = 2
    /\ gle.stored[1] # gle.stored[2]
    /\ gle.stored[2] = {l.id : l \in logs}
    /\ gle.pages[2].metadata.counts # EventCounts(logs, blocks, gle.request)
    /\ gle.pages[2].metadata.counts # {}

----------------------------------------------------------------------------
(* Logs and the rows of their block and transaction.                         *)

HasBlockAndTransaction(log, blockTable, transactionTable) ==
    /\ \E b \in blockTable : b.hash = log.blockHash /\ b.chainId = log.chainId
    /\ \E t \in transactionTable : t.hash = log.transactionHash /\ t.chainId = log.chainId

\* C16 as claimed: between the operations, every stored log has a blocks row
\* of its blockHash and a transactions row of its transactionHash, both with
\* the chainId of the log.
C16_EveryLogHasBlockAndTransaction ==
    \A l \in logs : HasBlockAndTransaction(l, blocks, transactions)

\* C16: a stored log lacks its block or its transaction row only if a call
\* that wrote logs alone (insertFactoryChildAddressLogs) stored it, and for as
\* long as no other call stores them: no call leaves a log without them that
\* had them, and a call that stores a block or a transaction leaves every log
\* it stores with both.
C16_OnlyChildAddressLogsLackBlock ==
    [][\A l \in logs' :
          \/ HasBlockAndTransaction(l, blocks', transactions')
          \/ l \in logs /\ ~HasBlockAndTransaction(l, blocks, transactions)
          \/ l \notin logs /\ blocks' = blocks /\ transactions' = transactions]_vars

\* A log stored by insertFactoryChildAddressLogs without its block and
\* transaction, next to a log stored with both.
C16_Witness ==
    /\ \E l \in logs : ~HasBlockAndTransaction(l, blocks, transactions)
    /\ \E l \in logs : HasBlockAndTransaction(l, blocks, transactions)

----------------------------------------------------------------------------
(* Properties of the transactions.                                           *)

IngestionMethods ==
    {"insertLogFilterInterval", "insertFactoryLogFilterInterval", "insertRealtimeBlock",
     "insertRealtimeInterval", "insertFactoryChildAddressLogs"}

\* C17: when a statement of a transactional ingestion method has failed, the
\* tables are as they were before the call, then and as long as the call's
\* callbacks run.
C17_FailedCallLeavesNoRow ==
    (txn.pc = "failed" /\ txn.method \in IngestionMethods) => Db = txn.before

\* What deleteRealtimeData as a whole makes of the tables.
DeleteResult(db, chainId, fromBlock_) ==
    LET fromBlock == encodeAsText(fromBlock_)
    IN  [blocks |-> DeleteAbove(db.blocks, chainId, fromBlock, "number"),
         transactions |-> DeleteAbove(db.transactions, chainId, fromBlock, "blockNumber"),
         logs |-> DeleteAbove(db.logs, chainId, fromBlock, "blockNumber"),
         rpcRequestResults |-> DeleteAbove(db.rpcRequestResults, chainId, fromBlock, "blockNumber"),
         logFilters |-> db.logFilters,
         logFilterIntervals |->
            TruncateIntervals(db.logFilterIntervals, db.logFilters, chainId, fromBlock),
         factories |-> db.factories,
         factoryLogFilterIntervals |->
            TruncateIntervals(db.factoryLogFilterIntervals, db.factories, chainId, fromBlock)]

\* C18: while deleteRealtimeData runs and after it has failed, the tables
\* any operation reads are as they were before the call; after it has
\* succeeded they are the result of all its delete and clamp steps.
C18_DeleteIsNeverPartial ==
    txn.method = "deleteRealtimeData" =>
        /\ txn.pc \in {"open", "failed"} => Db = txn.before
        /\ txn.pc = "committed" =>
              Db = DeleteResult(txn.before, txn.args.chainId, txn.args.fromBlock)

\* deleteRealtimeData has failed after some of its steps had changed the view
\* of its transaction, but not all of them.
C18_Witness ==
    /\ txn.method = "deleteRealtimeData"
    /\ txn.pc = "failed"
    /\ txn.work.blocks # txn.before.blocks
    /\ txn.work.logFilterIntervals # txn.before.logFilterIntervals
    /\ txn.work # DeleteResult(txn.before, txn.args.chainId, txn.args.fromBlock)

----------------------------------------------------------------------------
(* Properties of the sources of a getLogEvents request.                      *)

SourceOf(event) == CHOOSE src \in gle.request.sources : src.name = event.eventSourceName

\* The stored logs of the factory's event that announce the address.
AnnouncingLogs(source, address) ==
    {l \in logs :
        /\ l.chainId = source.chainId
        /\ l.address = source.criteria.address
        /\ l.topic0 = source.criteria.eventSelector
        /\ ChildAddress(l, source.criteria.childAddressLocation) = address}

\* C21: every event yielded for a factory source has the address of a child
\* that a stored log of the factory's event, of the same chain and of a block
\* number not greater than the event's, announces.
C21_ChildAnnouncedByThen ==
    \A i \in DOMAIN AllEvents :
        LET e == AllEvents[i]
        IN  SourceOf(e).kind = "factory" =>
                \E l \in AnnouncingLogs(SourceOf(e), e.log.address) :
                    decodeToBigInt(l.blockNumber) <= e.log.blockNumber

\* C22: for a source given fromBlock and/or toBlock, 0 included, every event
\* yielded for it has fromBlock <= block.number <= toBlock.
C22_EventsWithinBlockBounds ==
    \A i \in DOMAIN AllEvents :
        LET e == AllEvents[i]
        IN  /\ SourceOf(e).fromBlock # Undefined => SourceOf(e).fromBlock <= e.block.number
            /\ SourceOf(e).toBlock # Undefined => e.block.number <= SourceOf(e).toBlock

----------------------------------------------------------------------------
(* Arrays of one value in the criteria.                                      *)

\* The request with every criteria written with scalars.
ScalarRequest(request) ==
    [request EXCEPT !.sources = {[src EXCEPT !.criteria = AsScalar(src.criteria)] : src \in @}]

RowsLeft(request) ==
    {r \in IncludedRows(logs, blocks, request) :
        gle.cursor = NoCursor \/ AfterCursor(r, gle.cursor)}

\* C23: criteria that write an address or a topic position as the array [x]
\* behave as the criteria that write the scalar x: at every point of an
\* iteration of getLogEvents the pages that may come next and the counts are
\* those of the scalar request, the two forms have the same fragments, an
\* interval recorded for one form leaves the tables as the other form would,
\* and getLogFilterIntervals returns the same list for both.
C23_SingletonArrayIsScalar ==
    /\ gle.pc # "idle" =>
          /\ Pages(RowsLeft(gle.request), gle.pageSize)
                = Pages(RowsLeft(ScalarRequest(gle.request)), gle.pageSize)
          /\ gle.counts = EventCounts(logs, blocks, ScalarRequest(gle.request))
    /\ \A c \in ArrayCriteria :
          /\ buildLogFilterFragments(c, 1) = buildLogFilterFragments(AsScalar(c), 1)
          /\ getLogFilterIntervals(logFilters, logFilterIntervals, 1, c)
                = getLogFilterIntervals(logFilters, logFilterIntervals, 1, AsScalar(c))
          /\ \A iv \in ArrayIntervals :
                _insertLogFilterInterval(logFilters, logFilterIntervals, 1, <<c>>, iv)
                  = _insertLogFilterInterval(logFilters, logFilterIntervals, 1,
                                             <<AsScalar(c)>>, iv)

\* A finished iteration whose criteria give address and topic0 as arrays of
\* one value, which yielded an event, with coverage recorded for them.
C23_Witness ==
    /\ gle.pc = "done"
    /\ \E src \in gle.request.sources :
          /\ src.criteria.address = Many(<<"A">>)
          /\ src.criteria.topics = <<Many(<<"X">>)>>
          /\ getLogFilterIntervals(logFilters, logFilterIntervals, 1, src.criteria) # <<>>
    /\ \E i \in DOMAIN gle.pages : Len(gle.pages[i].events) > 0

----------------------------------------------------------------------------
(* What the raw inserts leave alone.                                         *)

CoverageUnchanged ==
    /\ UNCHANGED <<logFilters, logFilterIntervals, factories, factoryLogFilterIntervals>>
    /\ getLogFilterIntervals(logFilters', logFilterIntervals', 1, fAny)
          = getLogFilterIntervals(logFilters, logFilterIntervals, 1, fAny)

\* C24: a call of insertRealtimeBlock or of insertFactoryChildAddressLogs
\* leaves logFilters, logFilterIntervals, factories and
\* factoryLogFilterIntervals as they were, so the coverage queries return what
\* they returned before; insertFactoryChildAddressLogs also leaves blocks and
\* transactions as they were.
C24_RawInsertsRecordNoCoverage ==
    [][/\ RgInsertRealtimeBlock => CoverageUnchanged
       /\ RgInsertFactoryChildAddressLogs =>
            CoverageUnchanged /\ UNCHANGED <<blocks, transactions>>]_vars

\* Coverage is recorded, a block of chain 2 was stored by insertRealtimeBlock,
\* and a log stored by insertFactoryChildAddressLogs has no block.
C24_Witness ==
    /\ BagCardinality(logFilterIntervals) > 0
    /\ \E b \in blocks : b.chainId = 2
    /\ \E l \in logs : l.address = Fac.address /\ ~\E b \in blocks : b.hash = l.blockHash

----------------------------------------------------------------------------
(* What insertRealtimeInterval records.                                      *)

\* The interval lies within one interval of the list.
Within(list, interval) ==
    \E i \in DOMAIN list : list[i][1] <= interval[1] /\ interval[2] <= list[i][2]

\* C25: when insertRealtimeInterval(logFilters, factories, [s, e]) returns,
\* for every factory F of the call getFactoryLogFilterIntervals(F) and
\* getLogFilterIntervals({address: F.address, topics: [F.eventSelector]})
\* contain [s, e], and so does getLogFilterIntervals of every filter of the call.
C25_RealtimeIntervalRecorded ==
    [][\A lfs \in {<<>>, <<fX>>}, fas \in {<<>>, <<Fac>>}, iv \in Intervals :
          insertRealtimeInterval(2, lfs, fas, iv) =>
            /\ \A i \in DOMAIN fas :
                  /\ Within(getFactoryLogFilterIntervals(factories', factoryLogFilterIntervals',
                                                         2, fas[i]), iv)
                  /\ Within(getLogFilterIntervals(logFilters', logFilterIntervals', 2,
                                [address |-> One(fas[i].address),
                                 topics |-> <<One(fas[i].eventSelector)>>]), iv)
            /\ \A i \in DOMAIN lfs :
                  Within(getLogFilterIntervals(logFilters', logFilterIntervals', 2, lfs[i]), iv)]_vars

\* Factory F of chain 2 has coverage both as a factory and as the log filter
\* of its address and event selector.
C25_Witness ==
    /\ getFactoryLogFilterIntervals(factories, factoryLogFilterIntervals, 2, Fac) # <<>>
    /\ getLogFilterIntervals(logFilters, logFilterIntervals, 2,
                             [address |-> One(Fac.address),
                              topics |-> <<One(Fac.eventSelector)>>]) # <<>>

----------------------------------------------------------------------------
(* Logs inserted between the pages of getFactoryChildAddresses.              *)

\* C26: while getFactoryChildAddresses iterates with the bound
\* upToBlockNumber, a log inserted between two pages whose block number is
\* above the bound is in no later page.
C26_LateLogsAboveBoundNeverYielded ==
    \A k \in DOMAIN gfca.batches : \A i \in DOMAIN gfca.batches[k] :
        decodeToBigInt(gfca.batches[k][i].blockNumber) <= gfca.upToBlockNumber

\* A second or later page was read from a table that had gained a log above
\* the bound since the page before.
C26_Witness ==
    \E k \in DOMAIN gfca.stored : 
        /\ k > 1
        /\ \E l \in logs :
              /\ l.id \in gfca.stored[k] \ gfca.stored[k - 1]
              /\ l.address = gfca.factory.address
              /\ l.topic0 = gfca.factory.eventSelector
              /\ decodeToBigInt(l.blockNumber) > gfca.upToBlockNumber

----------------------------------------------------------------------------
(* Memoized contract reads.                                                  *)

\* The result last written for the key and not truncated since, <<>> for none.
LastWritten(written, blockNumber, chainId, request) ==
    LET ws == {w \in written : w.request = request /\ w.blockNumber = blockNumber
                                  /\ w.chainId = chainId}
    IN  IF ws = {} THEN <<>> ELSE <<CHOOSE w \in ws : TRUE>>

\* C27: getRpcRequestResult returns the result of the most recent
\* insertRpcRequestResult of the same (chainId, blockNumber, request) that
\* deleteRealtimeData has not removed since, and null when there is none; an
\* insert for one key leaves what every other key returns as it was.
C27_ReturnsLastWrittenResult ==
    [][/\ rpc'.pc = "done" =>
            rpc'.returned = LastWritten(rpc'.written, rpc'.blockNumber, rpc'.chainId,
                                        rpc'.request)
       /\ \A k \in RpcKeys, result \in RpcResults :
            insertRpcRequestResult(k[2], k[1], k[3], result) =>
                \A o \in RpcKeys \ {k} :
                    RpcRequestResults(rpcRequestResults', o[2], o[1], o[3])
                        = RpcRequestResults(rpcRequestResults, o[2], o[1], o[3])]_vars

\* A call returned a result while another key holds a different one.
C27_Witness ==
    /\ rpc.pc = "done"
    /\ rpc.returned # <<>>
    /\ \E r \in rpcRequestResults : r.result # rpc.returned[1].result

----------------------------------------------------------------------------
(* The child address, byte by byte.                                          *)

\* The bytes of a hex text after its "0x", each a pair of characters.
BytesOf(hex) == [i \in 1..((Len(hex) - 2) \div 2) |-> <<hex[2 * i + 1], hex[2 * i + 2]>>]

\* Bytes first..(first + 19) of the text, counted from 0, those that exist.
TwentyBytesFrom(hex, first) ==
    SubSeq(BytesOf(hex), first + 1, Min(first + 20, Len(BytesOf(hex))))

IsOffset(location) == StartsWith(location, <<"o", "f", "f", "s", "e", "t">>)

OffsetOf(location) == Number(SubSeq(location, 7, Len(location)))

\* C28 as stated: the child address is "0x" and 40 hex characters; for topicN
\* the rightmost 40 characters of the topic, for offsetK the 20 bytes that
\* start at byte K of the data.
C28_ChildAddressAtByteK ==
    calc.done =>
        LET l == calc.in.childAddressLocation
            row == calc.in.row
        IN  /\ Len(calc.out) = 42
            /\ SubSeq(calc.out, 1, 2) = <<"0", "x">>
            /\ BytesOf(calc.out) =
                    IF IsOffset(l) THEN TwentyBytesFrom(row.data, OffsetOf(l))
                    ELSE TwentyBytesFrom(Column(row, l), 12)

\* C28 amended: the child address is "0x" and, for topicN, the last 20 bytes
\* of the 32-byte topic; for offsetK, bytes K + 12 to K + 31 of the data (the
\* last 20 bytes of the 32-byte word that starts at byte K), as many of them
\* as the data holds: 40 hex characters when the data holds K + 32 bytes.
C28_ChildAddressIsLowBytesOfWord ==
    calc.done =>
        LET l == calc.in.childAddressLocation
            row == calc.in.row
        IN  /\ SubSeq(calc.out, 1, 2) = <<"0", "x">>
            /\ BytesOf(calc.out) =
                    IF IsOffset(l) THEN TwentyBytesFrom(row.data, OffsetOf(l) + 12)
                    ELSE TwentyBytesFrom(Column(row, l), 12)
            /\ ~IsOffset(l) \/ Len(BytesOf(row.data)) >= OffsetOf(l) + 32
                    => Len(calc.out) = 42

\* The expression was evaluated for offset4 on data of 36 bytes.
C28_Witness ==
    /\ calc.done
    /\ calc.in.childAddressLocation = <<"o", "f", "f", "s", "e", "t", "4">>
    /\ Len(BytesOf(calc.in.row.data)) = 36
    /\ Len(calc.out) = 42

----------------------------------------------------------------------------
(* What the read operations write.                                           *)

\* A step of getLogEvents, getFactoryChildAddresses or getRpcRequestResult.
QueryStep ==
    \/ RdGetLogEvents \/ getLogEventsPage \/ getLogEventsReturn
    \/ RdGetFactoryChildAddresses \/ getFactoryChildAddressesPage
    \/ getFactoryChildAddressesReturn
    \/ RdGetRpcRequestResult \/ getRpcRequestResultReturn

\* A step of getLogFilterIntervals or getFactoryLogFilterIntervals.
CoverageQueryStep ==
    \/ RdGetLogFilterIntervals \/ RdGetFactoryLogFilterIntervals
    \/ CovMerge \/ getIntervalsRead \/ getIntervalsReturn

\* The block numbers within the interval rows of a fragment.
CoveredBlocks(table, fragmentId) ==
    UNION {iv[1]..iv[2] : iv \in IntervalsOf(table, fragmentId)}

SameCoveredBlocks(before, after) ==
    \A id \in {r.fk : r \in BagToSet(before) \cup BagToSet(after)} :
        CoveredBlocks(after, id) = CoveredBlocks(before, id)

\* C29 as stated: no step of getLogFilterIntervals, getFactoryLogFilterIntervals,
\* getFactoryChildAddresses, getLogEvents or getRpcRequestResult creates,
\* deletes or modifies a row of any table.
C29_ReadsWriteNothing ==
    [][QueryStep \/ CoverageQueryStep => UNCHANGED tables]_vars

\* C29 amended: getFactoryChildAddresses, getLogEvents and getRpcRequestResult
\* write no row of any table. getLogFilterIntervals and
\* getFactoryLogFilterIntervals write no row of blocks, transactions, logs and
\* rpcRequestResults; they may add the fragments they ask about to logFilters
\* and factories, and replace the interval rows of a fragment by rows that
\* hold the same block numbers.
C29_OnlyCoverageQueriesWrite ==
    [][/\ QueryStep => UNCHANGED tables
       /\ CoverageQueryStep =>
            /\ UNCHANGED <<blocks, transactions, logs, rpcRequestResults>>
            /\ logFilters \subseteq logFilters'
            /\ factories \subseteq factories'
            /\ SameCoveredBlocks(logFilterIntervals, logFilterIntervals')
            /\ SameCoveredBlocks(factoryLogFilterIntervals, factoryLogFilterIntervals')]_vars

\* Every read has run: getLogFilterIntervals has returned and left a fragment
\* that no ingestion call stored, getLogEvents and getFactoryChildAddresses
\* have yielded a page, getRpcRequestResult has returned a row.
C29_Witness ==
    /\ glfi.pc = "done"
    /\ \E f \in logFilters : IntervalsOf(logFilterIntervals, f.id) = {}
    /\ Len(gle.pages) > 0
    /\ Len(gfca.pages) > 0
    /\ rpc.returned # <<>>

----------------------------------------------------------------------------
(* The interval functions on one list.                                       *)

\* C30: for every list L of closed intervals, intervalUnion(intervalUnion(L))
\* = intervalUnion(L), and intervalIntersectionMany([L]) =
\* intervalIntersectionMany([L, L]) = intervalUnion(L).
C30_UnionIdempotentSelfIntersection ==
    calc.done =>
        /\ calc.out.unionOfUnion = calc.out.union
        /\ calc.out.alone = calc.out.union
        /\ calc.out.withItself = calc.out.union

\* The functions were applied to a list of three intervals, not in order,
\* whose union is one interval.
C30_Witness ==
    /\ calc.done
    /\ Len(calc.in.list) = 3
    /\ calc.in.list[1][1] > calc.in.list[2][1]
    /\ Len(calc.out.union) = 1

----------------------------------------------------------------------------
(* What deleteRealtimeData leaves alone.                                     *)

\* The rows of a table that are of another chain, or at or below block p.
OutsideCut(table, c, p, column) ==
    {r \in table : r.chainId # c \/ decodeToBigInt(r[column]) <= p}

\* The interval rows of fragments of another chain, and those that end at or
\* below block p.
IntervalsOutsideCut(table, fragmentTable, c, p) ==
    {r \in BagToSet(table) :
        ChainOfRow(fragmentTable, r) # c \/ decodeToBigInt(r.endBlock) <= p}

\* C31: deleteRealtimeData(c, p) leaves as it was every block, transaction,
\* log and rpcRequestResults row of another chain, every such row of chain c
\* with block number <= p, every interval row of a fragment or factory of
\* another chain, and every interval row of chain c with endBlock <= p.
C31_TruncationLeavesTheRest ==
    [][\A c \in Chains, p \in 0..MaxBlock :
          deleteRealtimeData(c, p) =>
              /\ OutsideCut(blocks, c, p, "number") \subseteq blocks'
              /\ OutsideCut(transactions, c, p, "blockNumber") \subseteq transactions'
              /\ OutsideCut(logs, c, p, "blockNumber") \subseteq logs'
              /\ OutsideCut(rpcRequestResults, c, p, "blockNumber")
                    \subseteq rpcRequestResults'
              /\ \A r \in IntervalsOutsideCut(logFilterIntervals, logFilters, c, p) :
                    CopiesIn(r, logFilterIntervals') >= CopiesIn(r, logFilterIntervals)
              /\ \A r \in IntervalsOutsideCut(factoryLogFilterIntervals, factories, c, p) :
                    CopiesIn(r, factoryLogFilterIntervals')
                        >= CopiesIn(r, factoryLogFilterIntervals)]_vars

\* A fragment of chain 1 has lost its interval rows to deleteRealtimeData
\* while an interval row of chain 2 that ends at MaxBlock, a cached result of
\* chain 2 at MaxBlock and block 1 of chain 1 are still stored.
C31_Witness ==
    /\ \E f \in logFilters :
          f.chainId = 1 /\ IntervalsOf(logFilterIntervals, f.id) = {}
    /\ \E r \in BagToSet(logFilterIntervals) \cup BagToSet(factoryLogFilterIntervals) :
          decodeToBigInt(r.endBlock) = MaxBlock
    /\ \E r \in rpcRequestResults : r.chainId = 2
    /\ \E r \in blocks : r.chainId = 1 /\ decodeToBigInt(r.number) = 1

----------------------------------------------------------------------------
(* The merge of the coverage queries.                                        *)

\* The interval table the coverage query in progress merges and reads.
CallTable == IF glfi.kind = "logFilter" THEN logFilterIntervals ELSE factoryLogFilterIntervals

EventsUnder(log, name) ==
    {i \in DOMAIN AllEvents :
        AllEvents[i].log.id = log.id /\ AllEvents[i].eventSourceName = name}

\* C33: when the iteration has ended over a store without two logs of one
\* ordering key, a stored log that k >= 2 sources of the request select is in
\* the concatenated pages exactly k times, once under each of their names,
\* for every pageSize.
C33_OneEventPerSelectingSource ==
    (gle.pc = "done" /\ UniqueKeys) =>
        \A l \in MatchingLogs :
            Cardinality(SourcesMatching(l)) >= 2 =>
                /\ TimesYielded(l) = Cardinality(SourcesMatching(l))
                /\ \A name \in SourcesMatching(l) : Cardinality(EventsUnder(l, name)) = 1

----------------------------------------------------------------------------
(* The bounds of the interval rows.                                          *)

AllIntervalRows == BagToSet(logFilterIntervals) \cup BagToSet(factoryLogFilterIntervals)

\* C34: every row of logFilterIntervals and of factoryLogFilterIntervals has
\* startBlock <= endBlock in every reachable state, the intervals passed to
\* ingestion having startBlock <= endBlock: neither the merge of the coverage
\* queries nor the delete-then-clamp of deleteRealtimeData inverts a row.
C34_NoInvertedInterval ==
    \A r \in AllIntervalRows : decodeToBigInt(r.startBlock) <= decodeToBigInt(r.endBlock)

\* A coverage query has merged and returned while a row of chain 2 is stored
\* that deleteRealtimeData clamped down to its own startBlock.
C34_Witness ==
    /\ glfi.pc = "done"
    /\ \E r \in AllIntervalRows :
          /\ ChainOfRow(IF r \in BagToSet(logFilterIntervals) THEN logFilters ELSE factories, r) = 2
          /\ r.startBlock = r.endBlock
          /\ decodeToBigInt(r.endBlock) < MaxBlock
          /\ decodeToBigInt(r.endBlock) > 0

----------------------------------------------------------------------------
(* Coverage through broader stored fragments.                                *)

\* The stored fragment is as broad as the requested one or broader: its
\* address and each of its topics is null or equal to the requested slot
\* (a factory's address, selector and location are always bound).
BroaderOrEqual(stored, fragment) ==
    /\ stored.address \in {NULL, fragment.address}
    /\ \A idx \in 0..3 : Topic(stored, idx) \in {NULL, Topic(fragment, idx)}
    /\ glfi.kind = "factory" =>
            /\ stored.eventSelector = fragment.eventSelector
            /\ stored.childAddressLocation = fragment.childAddressLocation

\* The block numbers recorded on the call's chain under a stored fragment as
\* broad as the requested one or broader.
CoveredThroughBroader(fragment) ==
    {q[2] : q \in {r \in recorded :
        \E st \in (IF glfi.kind = "logFilter" THEN logFilters ELSE factories) :
            /\ st.id = r[1]
            /\ st.chainId = glfi.chainId
            /\ BroaderOrEqual(st, fragment)}}

\* C35: the list a coverage query returns holds a block number exactly when,
\* for each requested fragment, it is recorded on the same chain under a
\* stored fragment whose address and topics are each null or equal to the
\* requested fragment's: coverage of a broader fragment counts for the
\* narrower one, and what is recorded only under another chainId, or only
\* under a fragment that binds a slot the requested one leaves null or binds
\* differently, is never included.
C35_BroaderCoverageCountsSameChainOnly ==
    glfi.pc = "done" =>
        \A n \in 0..MaxBlock :
            n \in PointsOf(glfi.ret) <=> \A f \in CallFragments : n \in CoveredThroughBroader(f)

\* A query has returned blocks though nothing is recorded under its own
\* fragments, while a block recorded under the very same criteria on the
\* other chain is left out.
C35_Witness ==
    /\ glfi.pc = "done"
    /\ glfi.ret # <<>>
    /\ \A f \in CallFragments : RecordedFor(f.id) = {}
    /\ \E q \in recorded :
          /\ q[1] \in {f.id : f \in FragmentsOf(glfi.kind, glfi.criteria, 2)}
          /\ q[2] \notin PointsOf(glfi.ret)

----------------------------------------------------------------------------
(* The runner's handleNewLogs calls.                                         *)

\* No two batches of logs were pushed to one handler queue for one
\* fromTimestamp.
NoWindowPushedTwice ==
    \A i, j \in DOMAIN runner.pushed :
        i < j => ~(/\ runner.pushed[i].queue = runner.pushed[j].queue
                   /\ runner.pushed[i].fromTimestamp = runner.pushed[j].fromTimestamp)

\* C36: under any interleaving of the triggers of handleNewLogs
\* (newBackfillLogs, newFrontfillLogs, backfill, reload) and reloadHandlers,
\* at most one handleNewLogs call is between its getLogs call and its write
\* of logsProcessedToTimestamp, and no logs are pushed to the handler queue
\* twice for the same fromTimestamp window.
C36_OneHandleNewLogsAtATime ==
    /\ Len(runner.inFlight) <= 1
    /\ NoWindowPushedTwice

====
